---------------------------- MODULE Spec2Model ----------------------------
(***************************************************************************)
(* A model of the DCB import scripts of the waqf repository (src/scripts). *)
(*                                                                         *)
(* Cell texts are sequences of one-character strings, so that the scripts' *)
(* string handling (strip, lower, split, regular expressions, strptime)    *)
(* is computed character by character as the Python code computes it.      *)
(* Python's None is the value None below, which no text equals.            *)
(***************************************************************************)
EXTENDS Integers, Sequences, FiniteSets, TLC

VARIABLES
    fn,       \* pure-function runs: the function applied ("idle" before)
    arg,      \* pure-function runs: its input
    out,      \* pure-function runs: its result
    lib,      \* how the installed pandas auto-parser treats bare digit tokens
    script,   \* import runs: the script that is running
    pc,       \* import runs: position in the script
    sheets,   \* import runs: the input files, as listed and then as sorted
    sheetIdx, \* import runs: index of the sheet being processed
    cols,     \* import runs: the column mapping resolved for the sheet
    rows,     \* import runs: the rows read from the sheet (scripts that re-read it)
    rowIdx,   \* import runs: number of rows of the sheet consumed so far
    run,      \* import runs: 1 for the first invocation, 2 for the repeat
    store,    \* the external store: its tables
    faults,   \* number of store calls that failed so far
    calls,    \* the store calls issued by the last step
    stats,    \* counters of the sheet in progress
    results,  \* per-sheet results returned to main, in order
    buffer,   \* records prepared for batched submission
    batchIdx, \* start index of the next batch in buffer
    trail     \* what the last row step did with its row (history)

vars == <<fn, arg, out, lib, script, pc, sheets, sheetIdx, cols, rows, rowIdx, run,
          store, faults, calls, stats, results, buffer, batchIdx, trail>>

pureVars == <<fn, arg, out>>
runVars == <<script, pc, sheets, sheetIdx, cols, rows, rowIdx, run,
             store, faults, calls, stats, results, buffer, batchIdx, trail>>

None == <<"None">>

-----------------------------------------------------------------------------
(* Python str primitives over character sequences *)

Digit == {"0", "1", "2", "3", "4", "5", "6", "7", "8", "9"}

DigitChars == <<"0", "1", "2", "3", "4", "5", "6", "7", "8", "9">>

DigitVal(c) == (CHOOSE i \in 1..10 : DigitChars[i] = c) - 1

UpperChars == <<"A", "B", "C", "D", "E", "F", "G", "H", "I", "J", "K", "L", "M",
                "N", "O", "P", "Q", "R", "S", "T", "U", "V", "W", "X", "Y", "Z">>

LowerChars == <<"a", "b", "c", "d", "e", "f", "g", "h", "i", "j", "k", "l", "m",
                "n", "o", "p", "q", "r", "s", "t", "u", "v", "w", "x", "y", "z">>

UpperSet == {UpperChars[i] : i \in 1..26}

ToLower == [c \in UpperSet |-> LowerChars[CHOOSE i \in 1..26 : UpperChars[i] = c]]

LowerChar(c) == IF c \in UpperSet THEN ToLower[c] ELSE c

lower(s) == [i \in 1..Len(s) |-> LowerChar(s[i])]

IsSpace(c) == c = " "

RECURSIVE lstrip(_)
lstrip(s) == IF Len(s) > 0 /\ IsSpace(s[1]) THEN lstrip(Tail(s)) ELSE s

RECURSIVE rstrip(_)
rstrip(s) ==
    IF Len(s) > 0 /\ IsSpace(s[Len(s)]) THEN rstrip(SubSeq(s, 1, Len(s) - 1)) ELSE s

strip(s) == rstrip(lstrip(s))

RECURSIVE rstrip_char(_, _)
rstrip_char(s, c) ==
    IF Len(s) > 0 /\ s[Len(s)] = c THEN rstrip_char(SubSeq(s, 1, Len(s) - 1), c) ELSE s

isdigit(s) == Len(s) > 0 /\ \A i \in 1..Len(s) : s[i] \in Digit

RECURSIVE int(_)
int(s) == IF Len(s) = 0 THEN 0 ELSE 10 * int(SubSeq(s, 1, Len(s) - 1)) + DigitVal(s[Len(s)])

contains(s, c) == \E i \in 1..Len(s) : s[i] = c

\* str.split(c) for a one-character separator: empty pieces are kept
RECURSIVE split(_, _)
split(s, c) ==
    IF contains(s, c)
    THEN LET i == CHOOSE k \in 1..Len(s) : s[k] = c /\ \A j \in 1..(k - 1) : s[j] # c
         IN <<SubSeq(s, 1, i - 1)>> \o split(SubSeq(s, i + 1, Len(s)), c)
    ELSE <<s>>

RECURSIVE join(_, _)
join(parts, c) ==
    IF Len(parts) = 0 THEN <<>>
    ELSE IF Len(parts) = 1 THEN parts[1]
    ELSE parts[1] \o <<c>> \o join(Tail(parts), c)

StartsAt(s, t, i) == i + Len(t) - 1 <= Len(s) /\ SubSeq(s, i, i + Len(t) - 1) = t

\* str.replace(t, ''): every non-overlapping occurrence of t, left to right
RECURSIVE remove_all(_, _)
remove_all(s, t) ==
    IF Len(t) = 0 \/ Len(s) = 0 THEN s
    ELSE IF StartsAt(s, t, 1) THEN remove_all(SubSeq(s, Len(t) + 1, Len(s)), t)
    ELSE <<s[1]>> \o remove_all(Tail(s), t)

\* str(n).zfill(w) for a natural number n
RECURSIVE digits(_)
digits(n) == IF n < 10 THEN <<DigitChars[n + 1]>> ELSE digits(n \div 10) \o <<DigitChars[(n % 10) + 1]>>

RECURSIVE zfill(_, _)
zfill(s, w) == IF Len(s) >= w THEN s ELSE zfill(<<"0">> \o s, w)

-----------------------------------------------------------------------------
(* Dates: strptime / strftime *)

Fail == <<>>

IsLeap(y) == (y % 4 = 0 /\ y % 100 # 0) \/ y % 400 = 0

DaysInMonth(y, m) ==
    IF m = 2 THEN (IF IsLeap(y) THEN 29 ELSE 28)
    ELSE IF m \in {4, 6, 9, 11} THEN 30 ELSE 31

MonthAbbr == <<<<"j", "a", "n">>, <<"f", "e", "b">>, <<"m", "a", "r">>, <<"a", "p", "r">>,
               <<"m", "a", "y">>, <<"j", "u", "n">>, <<"j", "u", "l">>, <<"a", "u", "g">>,
               <<"s", "e", "p">>, <<"o", "c", "t">>, <<"n", "o", "v">>, <<"d", "e", "c">>>>

\* One strptime directive applied to one field; -1 when the field does not match.
\* %d: 1..31 in one or two digits; %m: 1..12 in one or two digits; %Y: four digits;
\* %y: two digits, 00..68 -> 20yy and 69..99 -> 19yy; %b: a month abbreviation.
Field(dir, t) ==
    CASE dir = "d" -> IF isdigit(t) /\ Len(t) <= 2 /\ int(t) \in 1..31 THEN int(t) ELSE -1
      [] dir = "m" -> IF isdigit(t) /\ Len(t) <= 2 /\ int(t) \in 1..12 THEN int(t) ELSE -1
      [] dir = "Y" -> IF isdigit(t) /\ Len(t) = 4 /\ int(t) >= 1 THEN int(t) ELSE -1
      [] dir = "y" -> IF isdigit(t) /\ Len(t) = 2
                      THEN (IF int(t) <= 68 THEN 2000 + int(t) ELSE 1900 + int(t))
                      ELSE -1
      [] dir = "b" -> IF \E i \in 1..12 : MonthAbbr[i] = lower(t)
                      THEN CHOOSE i \in 1..12 : MonthAbbr[i] = lower(t)
                      ELSE -1

\* strptime(s, fmt) for a format of three directives joined by one separator,
\* e.g. '%d-%m-%Y' is [sep |-> "-", dirs |-> <<"d", "m", "Y">>]; <<y, m, d>> or Fail
strptime(s, fmt) ==
    LET parts == split(s, fmt.sep) IN
    IF Len(parts) # 3 THEN Fail
    ELSE LET v == [i \in 1..3 |-> Field(fmt.dirs[i], parts[i])]
             pos(ds) == CHOOSE i \in 1..3 : fmt.dirs[i] \in ds
             y == v[pos({"Y", "y"})]
             m == v[pos({"m", "b"})]
             d == v[pos({"d"})]
         IN IF y = -1 \/ m = -1 \/ d = -1 THEN Fail
            ELSE IF d > DaysInMonth(y, m) THEN Fail
            ELSE <<y, m, d>>

\* strftime('%Y-%m-%d')
strftime(date) ==
    zfill(digits(date[1]), 4) \o <<"-">> \o zfill(digits(date[2]), 2)
        \o <<"-">> \o zfill(digits(date[3]), 2)

Fmt(sep, a, b, c) == [sep |-> sep, dirs |-> <<a, b, c>>]

\* The date a library inferred from a token that is no well-formed date: its
\* value is not determined by the scripts, only that it is a date text.
SomeDate == <<"Y", "Y", "Y", "Y", "-", "M", "M", "-", "D", "D">>

LibChoices == {"rejects", "infers"}

\* pd.to_datetime(s) without a format, then strftime('%Y-%m-%d'); None when it
\* raises or yields NaT.  Year-first texts parse as such; a-b-YYYY texts parse
\* month first and, when that is no date, day first; the month may be an
\* abbreviated name.  Any other text made only of
\* digits and - or / (a bare number, a two-digit year) depends on the installed
\* library: L = "infers" yields some date, L = "rejects" none.  Other texts fail.
to_datetime_auto(s, L) ==
    LET ymd == {strptime(s, Fmt(sep, "Y", m, "d")) : sep \in {"-", "/"}, m \in {"m", "b"}} \ {Fail}
        mdy == {strptime(s, Fmt(sep, m, "d", "Y")) : sep \in {"-", "/"}, m \in {"m", "b"}} \ {Fail}
        dmy == {strptime(s, Fmt(sep, "d", m, "Y")) : sep \in {"-", "/"}, m \in {"m", "b"}} \ {Fail}
    IN IF ymd # {} THEN strftime(CHOOSE x \in ymd : TRUE)
       ELSE IF mdy # {} THEN strftime(CHOOSE x \in mdy : TRUE)
       ELSE IF dmy # {} THEN strftime(CHOOSE x \in dmy : TRUE)
       ELSE IF Len(s) > 0 /\ (\A i \in 1..Len(s) : s[i] \in Digit \cup {"-", "/"})
                 /\ (\E i \in 1..Len(s) : s[i] \in Digit)
            THEN (IF L = "infers" THEN SomeDate ELSE None)
       ELSE None

-----------------------------------------------------------------------------
(* scripts/import_dcb_from_excel.py: parse_date, extract_receipt_challan *)

DateBlanks_excel == {<<"-">>, <<>>, <<"n", "a", "n">>, <<"n", "o", "n", "e">>}

DateFormats_excel ==
    <<Fmt("-", "Y", "m", "d"), Fmt("-", "d", "m", "Y"), Fmt("/", "d", "m", "Y"),
      Fmt("/", "Y", "m", "d"), Fmt("-", "d", "b", "Y"), Fmt("/", "d", "b", "Y")>>

\* the first format of fmts that parses s, tried in order; Fail when none does
RECURSIVE first_format(_, _)
first_format(s, fmts) ==
    IF Len(fmts) = 0 THEN Fail
    ELSE IF strptime(s, fmts[1]) # Fail THEN strptime(s, fmts[1])
    ELSE first_format(s, Tail(fmts))

parse_date_excel(date_str, L) ==
    IF date_str = None \/ Len(date_str) = 0 THEN None
    ELSE LET s == strip(date_str) IN
         IF lower(s) \in DateBlanks_excel THEN None
         ELSE IF first_format(s, DateFormats_excel) # Fail
              THEN strftime(first_format(s, DateFormats_excel))
         ELSE to_datetime_auto(s, L)

\* re.split(r'[,\s/]+', s): the pieces between maximal runs of separators
IsSplitSep(c) == c \in {",", " ", "/"}

RECURSIVE re_split(_)
re_split(s) ==
    IF \E i \in 1..Len(s) : IsSplitSep(s[i])
    THEN LET i == CHOOSE k \in 1..Len(s) :
                      IsSplitSep(s[k]) /\ \A j \in 1..(k - 1) : ~IsSplitSep(s[j])
             rest == SubSeq(s, i + 1, Len(s))
             RECURSIVE skip(_)
             skip(t) == IF Len(t) > 0 /\ IsSplitSep(t[1]) THEN skip(Tail(t)) ELSE t
         IN <<SubSeq(s, 1, i - 1)>> \o re_split(skip(rest))
    ELSE <<s>>

\* the loop over the parts: acc is <<receipt_no, receipt_date>>
RECURSIVE scan_parts(_, _, _)
scan_parts(parts, acc, L) ==
    IF Len(parts) = 0 THEN acc
    ELSE LET part == strip(parts[1])
             date_parsed == parse_date_excel(part, L)
         IN IF Len(part) = 0 THEN scan_parts(Tail(parts), acc, L)
            ELSE IF date_parsed # None
                 THEN scan_parts(Tail(parts), <<acc[1], date_parsed>>, L)
            ELSE IF acc[1] = None
                 THEN scan_parts(Tail(parts), <<part, acc[2]>>, L)
            ELSE scan_parts(Tail(parts), acc, L)

extract_receipt_challan(combined_value, L) ==
    IF combined_value = None \/ Len(combined_value) = 0 THEN <<None, None>>
    ELSE LET combined == strip(combined_value) IN
         IF lower(combined) \in DateBlanks_excel THEN <<None, None>>
         ELSE scan_parts(re_split(combined), <<None, None>>, L)

-----------------------------------------------------------------------------
(* scripts/import_consolidated_excel.py: parse_receipt_challan *)

IsDigits(s, i, n) == i + n - 1 <= Len(s) /\ \A k \in i..(i + n - 1) : s[k] \in Digit

IsDateSep(s, i) == i <= Len(s) /\ s[i] \in {"-", "/"}

\* a match of \d{a}[-/]\d{b}[-/]\d{c} starting at position i
MatchAt(s, i, a, b, c) ==
    /\ IsDigits(s, i, a)
    /\ IsDateSep(s, i + a)
    /\ IsDigits(s, i + a + 1, b)
    /\ IsDateSep(s, i + a + 1 + b)
    /\ IsDigits(s, i + a + b + 2, c)

\* re.search of a pattern \d{A}[-/]\d{B}[-/]\d{C} whose repetition counts range
\* over as, bs, cs: the leftmost start, and there the first match in backtracking
\* order (each greedy count as long as possible, the earlier group first).
\* The matched text, or Fail.
re_search(s, as, bs, cs) ==
    LET M == {m \in (1..Len(s)) \X as \X bs \X cs : MatchAt(s, m[1], m[2], m[3], m[4])}
        before(m, n) ==
            \/ m[1] < n[1]
            \/ m[1] = n[1] /\ m[2] > n[2]
            \/ m[1] = n[1] /\ m[2] = n[2] /\ m[3] > n[3]
            \/ m[1] = n[1] /\ m[2] = n[2] /\ m[3] = n[3] /\ m[4] >= n[4]
    IN IF M = {} THEN Fail
       ELSE LET m == CHOOSE x \in M : \A n \in M : before(x, n)
            IN SubSeq(s, m[1], m[1] + m[2] + m[3] + m[4] + 1)

\* date_patterns, tried in order
date_search(value) ==
    IF re_search(value, {1, 2}, {1, 2}, {2, 3, 4}) # Fail
    THEN re_search(value, {1, 2}, {1, 2}, {2, 3, 4})
    ELSE re_search(value, {4}, {1, 2}, {1, 2})

DateFormats_consolidated ==
    <<Fmt("-", "d", "m", "Y"), Fmt("/", "d", "m", "Y"), Fmt("-", "Y", "m", "d"),
      Fmt("/", "Y", "m", "d"), Fmt("-", "d", "m", "y"), Fmt("/", "d", "m", "y")>>

NoneIfEmpty(s) == IF Len(s) = 0 THEN None ELSE s

parse_receipt_challan(combined_value) ==
    IF combined_value = None \/ Len(strip(combined_value)) = 0 THEN <<None, None>>
    ELSE LET value == strip(combined_value)
             date_str == date_search(value)
         IN IF date_str # Fail
            THEN LET number == strip(rstrip_char(strip(remove_all(value, date_str)), ","))
                     parsed_date == first_format(date_str, DateFormats_consolidated)
                 IN IF parsed_date # Fail
                    THEN <<NoneIfEmpty(number), strftime(parsed_date)>>
                    ELSE <<NoneIfEmpty(number), None>>
            ELSE <<NoneIfEmpty(value), None>>

-----------------------------------------------------------------------------
(* scripts/import_dcb_data.py: parse_date, extract_receipt_info *)

DateBlanks_data == {<<"-">>, <<>>, <<"n", "a", "n">>, <<"N", "a", "N">>}

\* f"{y}-{m}-{d}" of d, m, y = text.split("-"); None when the unpacking raises
dmy_swap(text) ==
    LET p == split(text, "-") IN
    IF Len(p) # 3 THEN None ELSE p[3] \o <<"-">> \o p[2] \o <<"-">> \o p[1]

parse_date_data(date_str, L) ==
    IF date_str = None \/ Len(date_str) = 0 THEN None
    ELSE LET s == strip(date_str)
             parts == split(s, "/")
         IN IF s \in DateBlanks_data THEN None
            ELSE IF contains(s, "/") /\ contains(s, "-") /\ Len(parts) >= 3
                      /\ contains(parts[Len(parts)], "-")
                 THEN dmy_swap(parts[Len(parts)])
            ELSE IF contains(s, "-") /\ Len(split(s, "-")) = 3
                 THEN dmy_swap(s)
            ELSE to_datetime_auto(s, L)

extract_receipt_info_data(receipt_str, L) ==
    IF receipt_str = None \/ Len(receipt_str) = 0 THEN <<None, None>>
    ELSE LET s == strip(receipt_str)
             parts == split(s, "/")
         IN IF s \in DateBlanks_data THEN <<None, None>>
            ELSE IF contains(s, "/") /\ Len(parts) >= 2
                 THEN <<join(SubSeq(parts, 1, Len(parts) - 1), "/"),
                        parse_date_data(parts[Len(parts)], L)>>
            ELSE <<None, None>>

-----------------------------------------------------------------------------
(* Text cleaning of a cell: None is an absent (NaN) cell *)

TextBlanks_excel == {<<"n", "a", "n">>, <<"n", "o", "n", "e">>, <<>>, <<"-">>, <<"n", "/", "a">>, <<"n", "a">>}

clean_text_excel(value) ==
    IF value = None THEN None
    ELSE LET text == strip(value) IN
         IF lower(text) \in TextBlanks_excel THEN None ELSE text

clean_text_csv(value) ==
    IF value = None THEN None
    ELSE LET value_str == strip(value) IN
         IF lower(value_str) \in {<<>>, <<"n", "a", "n">>, <<"n", "o", "n", "e">>, <<"n", "u", "l", "l">>} THEN None ELSE value_str

clean_text_consolidated(value) ==
    IF value = None \/ strip(value) = <<>> THEN None ELSE strip(value)

\* re.sub(r"\s+", " ", s)
collapse_ws(s) ==
    LET kept == {i \in 1..Len(s) : ~IsSpace(s[i]) \/ i = 1 \/ ~IsSpace(s[i - 1])}
        nth(n) == CHOOSE i \in kept : Cardinality({j \in kept : j < i}) = n - 1
    IN [n \in 1..Cardinality(kept) |-> IF IsSpace(s[nth(n)]) THEN " " ELSE s[nth(n)]]

clean_text_waqf(v) ==
    IF v = None THEN None
    ELSE LET s == strip(v) IN
         IF lower(s) \in {<<>>, <<"n", "a", "n">>, <<"n", "u", "l", "l">>, <<"n", "o", "n", "e">>, <<"-">>} THEN None ELSE collapse_ws(s)

norm_name(s) == lower(collapse_ws(strip(s)))

-----------------------------------------------------------------------------
(* Header resolution: column indices are 0-based, NoCol is Python's None *)

NoCol == -1

\* Python's `t in s` for strings
in_text(t, s) == \E i \in 1..(Len(s) - Len(t) + 1) : StartsAt(s, t, i)

\* a search that reports the leftmost column whenever some title qualifies
leftmost_if_found(columns, search_terms, exclude_terms) ==
    IF \E i \in 1..Len(columns) :
          /\ \A term \in search_terms : in_text(lower(term), strip(lower(columns[i])))
          /\ ~\E exclude \in exclude_terms :
                in_text(lower(exclude), strip(lower(columns[i])))
    THEN 0 ELSE NoCol

find_column_index(columns, search_terms, exclude_terms) ==
    LET Hit(i) == LET col_str == strip(lower(columns[i])) IN
                  /\ \A term \in search_terms : in_text(lower(term), col_str)
                  /\ ~\E exclude \in exclude_terms : in_text(lower(exclude), col_str)
    IN IF \E i \in 1..Len(columns) : Hit(i)
       THEN (CHOOSE i \in 1..Len(columns) : Hit(i) /\ \A j \in 1..(i - 1) : ~Hit(j)) - 1
       ELSE NoCol

\* `x = f(...); if x is None: x = g(...)`
or_else(first, second) == IF first # NoCol THEN first ELSE second

resolve_excel(columns) ==
    [ap_no_col |->
        or_else(find_column_index(columns, {<<"a", "p">>, <<"g", "a", "z", "e", "t", "t", "e">>}, {<<"s", "l", " ", "n", "o">>, <<"s", "e", "r", "i", "a", "l">>}),
        or_else(find_column_index(columns, {<<"g", "a", "z", "e", "t", "t", "e">>}, {}),
                find_column_index(columns, {<<"s", "l">>, <<"n", "o">>}, {}))),
     name_col |->
        or_else(find_column_index(columns, {<<"i", "n", "s", "t", "i", "t", "u", "t", "i", "o", "n">>, <<"n", "a", "m", "e">>},
                                  {<<"m", "a", "n", "d", "a", "l">>, <<"v", "i", "l", "l", "a", "g", "e">>, <<"o", "f", " ", "o", "f", "f", "i", "c", "e", "r">>}),
                find_column_index(columns, {<<"n", "a", "m", "e">>}, {<<"m", "a", "n", "d", "a", "l">>, <<"v", "i", "l", "l", "a", "g", "e">>})),
     remarks_col |-> find_column_index(columns, {<<"r", "e", "m", "a", "r", "k">>}, {})]

\* the first column whose lower-cased title contains one of the keywords and
\* none of the excluded words
first_with_any(columns, keywords, excluded) ==
    LET Hit(i) == LET col_str == strip(lower(columns[i])) IN
                  /\ \E keyword \in keywords : in_text(keyword, col_str)
                  /\ ~\E word \in excluded : in_text(word, col_str)
    IN IF \E i \in 1..Len(columns) : Hit(i)
       THEN (CHOOSE i \in 1..Len(columns) : Hit(i) /\ \A j \in 1..(i - 1) : ~Hit(j)) - 1
       ELSE NoCol

\* a column index assigned without an `is None` guard: every later column
\* whose lower-cased title contains one of `keywords` and all of `required`
\* replaces the earlier one
last_with(columns, keywords, required) ==
    LET Hit(i) == LET col_str == strip(lower(columns[i])) IN
                  /\ \E keyword \in keywords : in_text(keyword, col_str)
                  /\ \A word \in required : in_text(word, col_str)
    IN IF \E i \in 1..Len(columns) : Hit(i)
       THEN (CHOOSE i \in 1..Len(columns) :
                Hit(i) /\ \A j \in (i + 1)..Len(columns) : ~Hit(j)) - 1
       ELSE NoCol

\* `if col is None and len(df.columns) > n: col = n`
default_at(columns, n) == IF Len(columns) > n THEN n ELSE NoCol

resolve_institutions(columns) ==
    [ap_no_col |->
        or_else(first_with_any(columns, {<<"a", "p">>, <<"g", "a", "z", "e", "t", "t", "e">>, <<"s", "l", ".", "n", "o">>, <<"s", "l", " ", "n", "o">>, <<"s", "e", "r", "i", "a", "l">>}, {}),
                IF Len(columns) > 1 THEN 1 ELSE 0),
     name_col |->
        or_else(first_with_any(columns, {<<"i", "n", "s", "t", "i", "t", "u", "t", "i", "o", "n">>, <<"n", "a", "m", "e">>, <<"w", "a", "q", "f">>}, {<<"m", "a", "n", "d", "a", "l">>, <<"v", "i", "l", "l", "a", "g", "e">>}),
                IF Len(columns) > 2 THEN 2 ELSE IF Len(columns) > 1 THEN 1 ELSE 0),
     remarks_col |-> NoCol,
     mandal_col |-> or_else(last_with(columns, {<<"m", "a", "n", "d", "a", "l">>}, {}), default_at(columns, 3)),
     village_col |-> or_else(last_with(columns, {<<"v", "i", "l", "l", "a", "g", "e">>}, {}), default_at(columns, 4))]

resolve_update(columns) ==
    [ap_no_col |->
        or_else(first_with_any(columns, {<<"a", "p">>, <<"g", "a", "z", "e", "t", "t", "e">>, <<"s", "l", ".", "n", "o">>}, {}),
                default_at(columns, 1)),
     name_col |-> NoCol,
     remarks_col |-> NoCol,
     c_arrears_col |->
        or_else(last_with(columns, {<<"c">>, <<"c", "o", "l", "l", "e", "c", "t", "i", "o", "n">>}, {<<"a", "r", "r", "e", "a", "r">>}), default_at(columns, 13)),
     c_current_col |->
        or_else(last_with(columns, {<<"c">>, <<"c", "o", "l", "l", "e", "c", "t", "i", "o", "n">>}, {<<"c", "u", "r", "r", "e", "n", "t">>}), default_at(columns, 14))]

\* pick(*names): the column registered under the first alias that is a
\* normalised column title; a later column of the same title replaces an earlier
pick(columns, names) ==
    LET Found(n) == \E i \in 1..Len(columns) : norm_name(columns[i]) = norm_name(n)
        Col(n) == (CHOOSE i \in 1..Len(columns) :
                      /\ norm_name(columns[i]) = norm_name(n)
                      /\ \A j \in (i + 1)..Len(columns) : norm_name(columns[j]) # norm_name(n)) - 1
    IN IF \E k \in 1..Len(names) : Found(names[k])
       THEN Col(names[CHOOSE k \in 1..Len(names) :
                        Found(names[k]) /\ \A j \in 1..(k - 1) : ~Found(names[j])])
       ELSE NoCol

resolve_waqf(columns) ==
    [ap_no_col |-> pick(columns, <<<<"A", "p", " ", "G", "a", "z", "e", "t", "t", "e", " ", "N", "o">>, <<"A", "P", " ", "G", "a", "z", "e", "t", "t", "e", " ", "N", "o">>, <<"A", "P", " ", "N", "o">>, <<"a", "p", "_", "g", "a", "z", "e", "t", "t", "e", "_", "n", "o">>>>),
     name_col |-> pick(columns, <<<<"N", "a", "m", "e", " ", "o", "f", " ", "i", "n", "s", "t", "i", "t", "u", "t", "i", "o", "n">>, <<"N", "a", "m", "e", " ", "o", "f", " ", "I", "n", "s", "t", "i", "t", "u", "t", "i", "o", "n">>,
                                  <<"N", "a", "m", "e", " ", "o", "f", " ", "t", "h", "e", " ", "I", "n", "s", "t", "i", "t", "u", "t", "i", "o", "n">>, <<"i", "n", "s", "t", "i", "t", "u", "t", "i", "o", "n", "_", "n", "a", "m", "e">>>>),
     district_col |-> pick(columns, <<<<"D", "i", "s", "t", "r", "i", "c", "t">>, <<"d", "i", "s", "t", "r", "i", "c", "t", "_", "n", "a", "m", "e">>>>),
     remarks_col |-> pick(columns, <<<<"R", "e", "m", "a", "r", "k", "s">>, <<"r", "e", "m", "a", "r", "k", "s">>>>)]

\* actual_columns[excel_col]: the first column whose stripped title equals the
\* label ignoring case
actual_column(columns, excel_col) ==
    LET Hit(i) == lower(strip(columns[i])) = lower(excel_col)
    IN IF \E i \in 1..Len(columns) : Hit(i)
       THEN (CHOOSE i \in 1..Len(columns) : Hit(i) /\ \A j \in 1..(i - 1) : ~Hit(j)) - 1
       ELSE NoCol

resolve_consolidated(columns) ==
    [ap_no_col |-> actual_column(columns, <<"A", "p", " ", "G", "a", "z", "e", "t", "t", "e", " ", "N", "o">>),
     name_col |-> actual_column(columns, <<"N", "a", "m", "e", " ", "o", "f", " ", "i", "n", "s", "t", "i", "t", "u", "t", "i", "o", "n">>),
     remarks_col |-> actual_column(columns, <<"R", "e", "m", "a", "r", "k", "s">>)]

\* row.iloc[col] guarded by `col is not None and col < len(row)`
cell(row, col) == IF col # NoCol /\ col < Len(row) THEN row[col + 1] ELSE None

-----------------------------------------------------------------------------
(* Row classification: "accepted", or the reason the row is skipped *)

SkipPatterns_excel ==
    {<<"a", "p", " ", "n", "o">>, <<"a", "p", " ", "g", "a", "z", "e", "t", "t", "e", " ", "n", "o">>, <<"g", "a", "z", "e", "t", "t", "e">>, <<"s", "l", " ", "n", "o">>, <<"s", ".", "n", "o">>, <<"s", "e", "r", "i", "a", "l", " ", "n", "o">>, <<"s", "n", "o">>,
     <<"s", "e", "r", "i", "a", "l", " ", "n", "u", "m", "b", "e", "r">>}

NamePatterns_excel == {<<"i", "n", "s", "t", "i", "t", "u", "t", "i", "o", "n", " ", "n", "a", "m", "e">>, <<"n", "a", "m", "e", " ", "o", "f", " ", "i", "n", "s", "t", "i", "t", "u", "t", "i", "o", "n">>, <<"n", "a", "m", "e">>, <<"w", "a", "q", "f", " ", "n", "a", "m", "e">>}

classify_excel(ap_cell, name_cell) ==
    LET ap_no == clean_text_excel(ap_cell)
        institution_name == clean_text_excel(name_cell)
    IN IF ap_no = None \/ institution_name = None THEN "missing"
       ELSE IF lower(ap_no) \in SkipPatterns_excel
               \/ lower(institution_name) \in NamePatterns_excel THEN "header"
       ELSE IF isdigit(ap_no) /\ Len(ap_no) <= 3 THEN "row_number"
       ELSE "accepted"

classify_institutions(ap_cell, name_cell) ==
    LET ap_no == clean_text_excel(ap_cell)
        institution_name == clean_text_excel(name_cell)
    IN IF ap_no = None \/ institution_name = None THEN "missing"
       ELSE IF lower(ap_no) \in SkipPatterns_excel \cup {<<"1">>, <<"2">>, <<"3">>, <<"4">>, <<"5">>}
               \/ lower(institution_name) \in NamePatterns_excel THEN "header"
       ELSE IF isdigit(ap_no) /\ Len(ap_no) <= 3 THEN "row_number"
       ELSE "accepted"

ColumnNumbers_complete == {digits(n) : n \in 1..20}

ApBlanks_complete ==
    {<<"n", "a", "n">>,
     <<"N", "a", "N">>,
     <<"2">>,
     <<"-">>,
     <<>>,
     <<"A", ".", "P", ".", "G", "a", "z", "e", "t", "t", "e", " ", "S", "l", ".", " ", "N", "o", ".">>,
     <<"A", ".", "P", ".", "G", "a", "z", "e", "t", "t", "e", " ", "S", "l", ".", "N", "o", ".">>,
     <<"A", ".", "P", ".", " ", " ", " ", " ", " ", " ", " ", " ", " ", " ", " ", " ", " ", " ", " ", "G", "a", "z", "e", "t", "t", "e", " ", " ", " ", " ", " ", " ", " ", " ", " ", " ", " ", " ", " ", " ", " ", " ", " ", "S", "l", ".", " ", "N", "o", ".">>,
     <<"A", ".", "P", ".", " ", " ", " ", " ", " ", " ", "G", "a", "z", "e", "t", "t", "e", " ", "S", "l", ".", " ", "N", "o", ".">>,
     <<"A", ".", "P", ".", " ", "G", "a", "z", "e", "t", "t", "e", " ", "S", "l", ".", "N", "o", ".">>,
     <<"A", ".", "P", " ", "G", "a", "z", "e", "t", "t", "e", " ", "S", "l", ".", "N", "o", ".">>,
     <<"A", ".", "P", ".", "G", "a", "z", "e", "t", "t", "e", " ", "S", "l", ".", " ", "N", "o">>,
     <<"G", "a", "z", "e", "t", "t", "e", " ", "S", "L", ".", "N", "O">>}

NameBlanks_complete ==
    {<<"n", "a", "n">>,
     <<"N", "a", "N">>,
     <<"3">>,
     <<>>,
     <<"N", "a", "m", "e", " ", "o", "f", " ", "t", "h", "e", " ", "I", "n", "s", "t", "i", "t", "u", "t", "i", "o", "n", ".">>,
     <<"N", "a", "m", "e", " ", "o", "f", " ", "t", "h", "e", " ", "I", "n", "s", "t", "i", "t", "u", "t", "i", "o", "n">>,
     <<"N", "a", "m", "e", " ", "o", "f", " ", "t", "h", "e", " ", "I", "n", "s", "t", "i", "t", "u", "t", "i", "o", "n", " ", "&", " ", "l", "o", "c", "a", "t", "i", "o", "n">>}

\* str(cell).strip() of a present cell
str_strip(value) == IF value = None THEN None ELSE strip(value)

classify_complete(first_cell, ap_cell, name_cell) ==
    LET first_col == str_strip(first_cell)
        ap_no == str_strip(ap_cell)
        institution_name == str_strip(name_cell)
    IN IF first_col \in ColumnNumbers_complete THEN "column_numbers"
       ELSE IF ap_no = None \/ ap_no \in ApBlanks_complete THEN "header"
       ELSE IF isdigit(ap_no) /\ Len(ap_no) <= 2 THEN "row_number"
       ELSE IF institution_name = None \/ institution_name \in NameBlanks_complete
            THEN "header"
       ELSE "accepted"

classify_update(ap_cell) ==
    LET ap_no == clean_text_excel(ap_cell)
    IN IF ap_no = None \/ lower(ap_no) \in {<<"a", "p", " ", "n", "o">>, <<"g", "a", "z", "e", "t", "t", "e">>, <<"s", "l", " ", "n", "o">>} THEN "header"
       ELSE "accepted"

\* process_csv_row's validation: ValueError when a required field is missing
classify_csv(ap_cell, name_cell) ==
    IF clean_text_csv(ap_cell) = None \/ clean_text_csv(name_cell) = None
    THEN "missing" ELSE "accepted"

-----------------------------------------------------------------------------
(* The state of a run in which no import script is executing *)

NoStats == [processed |-> 0, skipped |-> 0, created |-> 0, updated |-> 0,
            errors |-> 0, inserted |-> 0, failed |-> 0, writes |-> 0,
            institutions |-> 0, dcb_skipped |-> 0]

NoCols == [ap_no_col |-> NoCol, name_col |-> NoCol, remarks_col |-> NoCol]

NoTrail == [verdict |-> "none", cleaned |-> {}, outcome |-> "none"]

EmptyStore == [institutions |-> <<>>, institution_dcb |-> <<>>, unique |-> TRUE]

RunIdle ==
    /\ script = "none"
    /\ pc = "idle"
    /\ sheets = <<>>
    /\ sheetIdx = 0
    /\ cols = NoCols
    /\ rows = <<>>
    /\ rowIdx = 0
    /\ run = 0
    /\ store = EmptyStore
    /\ faults = 0
    /\ calls = <<>>
    /\ stats = NoStats
    /\ results = <<>>
    /\ buffer = <<>>
    /\ batchIdx = 0
    /\ trail = NoTrail

PureIdle ==
    /\ fn = "none"
    /\ arg = <<>>
    /\ out = <<>>
    /\ lib = "rejects"

-----------------------------------------------------------------------------
(* Composite receipt/challan cells and the three splitters applied to them *)

SplitNumbers == {<<"2", "6", "1", "4", "/", "5", "3">>, <<"1", "2", "3">>, <<"A", "1">>, <<>>}

SplitSeparators == {<<"/">>, <<",">>, <<" ">>, <<",", " ">>}

SplitDates == {<<"0", "5", "-", "0", "6", "-", "2", "0", "2", "5">>, <<"0", "1", "-", "0", "1", "-", "2", "0", "2", "4">>, <<"2", "0", "2", "5", "-", "0", "6", "-", "0", "5">>, <<"0", "5", "/", "0", "6", "/", "2", "0", "2", "5">>, <<"5", "-", "6", "-", "2", "5">>, <<>>}

CompositeCells ==
    {n \o sp \o d : n \in SplitNumbers, sp \in SplitSeparators, d \in SplitDates}
        \cup {<<"-">>, <<"n", "a", "n">>, None}

SplitInit ==
    /\ fn = "idle"
    /\ arg \in CompositeCells
    /\ out = <<None, None>>
    /\ lib \in LibChoices
    /\ RunIdle

Apply_extract_receipt_challan ==
    /\ fn = "idle"
    /\ fn' = "extract_receipt_challan"
    /\ out' = extract_receipt_challan(arg, lib)
    /\ UNCHANGED <<arg, lib, runVars>>

Apply_parse_receipt_challan ==
    /\ fn = "idle"
    /\ fn' = "parse_receipt_challan"
    /\ out' = parse_receipt_challan(arg)
    /\ UNCHANGED <<arg, lib, runVars>>

Apply_extract_receipt_info ==
    /\ fn = "idle"
    /\ fn' = "extract_receipt_info"
    /\ out' = extract_receipt_info_data(arg, lib)
    /\ UNCHANGED <<arg, lib, runVars>>

SplitNext ==
    \/ Apply_extract_receipt_challan
    \/ Apply_parse_receipt_challan
    \/ Apply_extract_receipt_info

SpecSplit == SplitInit /\ [][SplitNext]_vars

\* C1: every splitter returns number "2614/53" and date 2025-06-05 for
\* "2614/53/05-06-2025", number "123" and date 2024-01-01 for "123,01-01-2024",
\* and (None, None) for "-".
C1_SplitExamples ==
    fn # "idle" =>
        /\ arg = <<"2", "6", "1", "4", "/", "5", "3", "/", "0", "5", "-", "0", "6", "-", "2", "0", "2", "5">> => out = <<<<"2", "6", "1", "4", "/", "5", "3">>, <<"2", "0", "2", "5", "-", "0", "6", "-", "0", "5">>>>
        /\ arg = <<"1", "2", "3", ",", "0", "1", "-", "0", "1", "-", "2", "0", "2", "4">> => out = <<<<"1", "2", "3">>, <<"2", "0", "2", "4", "-", "0", "1", "-", "0", "1">>>>
        /\ arg = <<"-">> => out = <<None, None>>

-----------------------------------------------------------------------------
(* Raw rows <<first cell, ApNo cell, name cell>> and the row classifiers *)

FirstCells == {None, <<"1">>, <<"2", "1">>}

ApCells ==
    {None, <<"-">>, <<"1", "2">>, <<"1", "2", "3">>, <<"1", "2", "3", "4">>, <<"A", "1", "2", "3", "4">>, <<" ", "a", "1", "2", "3", "4", " ">>, <<"A", "P", " ", "N", "o">>, <<"G", "a", "z", "e", "t", "t", "e">>,
     <<"g", "a", "z", "e", "t", "t", "e", " ", "s", "l", ".", "n", "o">>, <<"S", "e", "r", "i", "a", "l", " ", "N", "u", "m", "b", "e", "r">>, <<"s", "l", " ", "n", "o">>}

NameCells == {None, <<"n", "/", "a">>, <<"M", "a", "s", "j", "i", "d">>, <<"N", "a", "m", "e", " ", "o", "f", " ", "I", "n", "s", "t", "i", "t", "u", "t", "i", "o", "n">>, <<"N", "A", "M", "E", " ", "O", "F", " ", "I", "N", "S", "T", "I", "T", "U", "T", "I", "O", "N">>}

ClassifyInit ==
    /\ fn = "idle"
    /\ arg \in FirstCells \X ApCells \X NameCells
    /\ out = "idle"
    /\ lib = "rejects"
    /\ RunIdle

Apply_classify_excel ==
    /\ fn = "idle"
    /\ fn' = "classify_excel"
    /\ out' = classify_excel(arg[2], arg[3])
    /\ UNCHANGED <<arg, lib, runVars>>

Apply_classify_complete ==
    /\ fn = "idle"
    /\ fn' = "classify_complete"
    /\ out' = classify_complete(arg[1], arg[2], arg[3])
    /\ UNCHANGED <<arg, lib, runVars>>

Apply_classify_institutions ==
    /\ fn = "idle"
    /\ fn' = "classify_institutions"
    /\ out' = classify_institutions(arg[2], arg[3])
    /\ UNCHANGED <<arg, lib, runVars>>

Apply_classify_update ==
    /\ fn = "idle"
    /\ fn' = "classify_update"
    /\ out' = classify_update(arg[2])
    /\ UNCHANGED <<arg, lib, runVars>>

ClassifyNext ==
    \/ Apply_classify_excel
    \/ Apply_classify_complete
    \/ Apply_classify_institutions
    \/ Apply_classify_update

SpecClassify == ClassifyInit /\ [][ClassifyNext]_vars

\* the cell's text as the classifier sees it: trimmed, lower-cased
Label(value) == IF value = None THEN None ELSE lower(strip(value))

\* C8: a row whose cleaned ApNo cell is digits only and at most 3 long is
\* rejected, and a row with ApNo "A1234" and a present, non-sentinel
\* institution name is accepted (import_dcb_from_excel, import_dcb_complete,
\* import_institutions_from_excel).
C8_SmallNumbersRejected ==
    fn \in {"classify_excel", "classify_complete", "classify_institutions"} =>
        /\ (arg[2] # None /\ isdigit(strip(arg[2])) /\ Len(strip(arg[2])) <= 3)
              => out # "accepted"
        /\ (arg[2] = <<"A", "1", "2", "3", "4">> /\ arg[1] = None /\ arg[3] = <<"M", "a", "s", "j", "i", "d">>)
              => out = "accepted"

\* C9: a row is rejected when its cleaned ApNo cell equals a sentinel header
\* label in any letter case, or when its institution-name cell is absent or a
\* sentinel label in any letter case (import_dcb_from_excel,
\* import_dcb_complete, update_collections_from_excel).
C9_HeaderLabelsRejected ==
    fn \in {"classify_excel", "classify_complete", "classify_update"} =>
        ((\/ Label(arg[2]) \in {<<"a", "p", " ", "n", "o">>, <<"g", "a", "z", "e", "t", "t", "e">>, <<"s", "l", " ", "n", "o">>, <<"s", "e", "r", "i", "a", "l", " ", "n", "u", "m", "b", "e", "r">>}
          \/ clean_text_excel(arg[3]) = None
          \/ Label(arg[3]) \in {<<"n", "a", "m", "e", " ", "o", "f", " ", "i", "n", "s", "t", "i", "t", "u", "t", "i", "o", "n">>})
            => out # "accepted")

-----------------------------------------------------------------------------
(* The external store and the calls sent to it *)

MaxFaults == 1

MaxRows == 2

Call(op, table, keys) == [op |-> op, table |-> table, keys |-> keys]

has_institution(st, ap) ==
    \E i \in 1..Len(st.institutions) : st.institutions[i].ap = ap

has_dcb(st, key) ==
    \E i \in 1..Len(st.institution_dcb) : st.institution_dcb[i].key = key

\* .update(data).eq("id", existing.data[0]["id"]): the first row of that key
update_dcb(st, key, data) ==
    LET first == CHOOSE i \in 1..Len(st.institution_dcb) :
                    /\ st.institution_dcb[i].key = key
                    /\ \A j \in 1..(i - 1) : st.institution_dcb[j].key # key
    IN [st EXCEPT !.institution_dcb[first] = [key |-> key, data |-> data]]

\* an insert into a table that keeps nothing but its newest row
insert_alone(st, key, data) ==
    [st EXCEPT !.institution_dcb = <<[key |-> key, data |-> data]>>]

insert_dcb(st, key, data) ==
    [st EXCEPT !.institution_dcb = Append(@, [key |-> key, data |-> data])]

-----------------------------------------------------------------------------
(* scripts/import_dcb_from_excel.py: main and process_excel_file *)

DISTRICT_MAPPING ==
    {<<"A", "d", "o", "n", "i">>, <<"A", "S", "R", "R">>, <<"A", "n", "a", "k", "a", "p", "a", "l", "l", "i">>, <<"A", "n", "a", "n", "t", "a", "p", "u", "r", "a", "m", "u">>, <<"A", "n", "n", "a", "m", "a", "y", "a">>, <<"B", "a", "p", "a", "t", "l", "a">>, <<"C", "h", "i", "t", "o", "o", "r">>,
     <<"D", "r", ".", " ", "B", ".", "R", ".", " ", "K", "o", "n", "a", "s", "e", "e", "m", "a">>, <<"E", "G">>, <<"E", "l", "u", "r", "u">>, <<"G", "u", "n", "t", "u", "r">>, <<"K", "a", "k", "i", "n", "a", "d", "a">>, <<"K", "r", "i", "s", "h", "n", "a">>, <<"K", "u", "r", "n", "o", "o", "l">>,
     <<"N", "a", "n", "d", "y", "a", "l">>, <<"N", "e", "l", "l", "o", "r", "e">>, <<"N", "T", "R">>, <<"P", "a", "l", "n", "a", "d", "u">>, <<"P", "a", "r", "v", "a", "t", "i", "p", "u", "r", "a", "m">>, <<"P", "r", "a", "k", "a", "s", "a", "m">>,
     <<"S", "r", "i", "k", "a", "k", "u", "l", "a", "m">>, <<"S", "S", "S">>, <<"T", "i", "r", "u", "p", "a", "t", "i">>, <<"V", "S", "K", "P">>, <<"V", "i", "z", "i", "a", "n", "a", "g", "a", "r", "a", "m">>, <<"W", "G">>, <<"Y", "S", "R">>}

DEFAULT_FINANCIAL_YEAR == "2025-26"

\* code-point order of the letters
Ord(c) ==
    IF \E i \in 1..26 : UpperChars[i] = c THEN CHOOSE i \in 1..26 : UpperChars[i] = c
    ELSE IF \E i \in 1..26 : LowerChars[i] = c
         THEN 32 + (CHOOSE i \in 1..26 : LowerChars[i] = c)
    ELSE 0

RECURSIVE text_lt(_, _)
text_lt(a, b) ==
    IF Len(b) = 0 THEN FALSE
    ELSE IF Len(a) = 0 THEN TRUE
    ELSE IF Ord(a[1]) # Ord(b[1]) THEN Ord(a[1]) < Ord(b[1])
    ELSE text_lt(Tail(a), Tail(b))

\* files as main would process them if it did not sort the listing
listed(files) == files

\* sorted(excel_files): the arrangement of the files in ascending order
sorted(files) ==
    CHOOSE s \in [1..Len(files) -> {files[i] : i \in 1..Len(files)}] :
        /\ \A i \in 1..Len(files) : \E j \in 1..Len(files) : s[j] = files[i]
        /\ \A i, j \in 1..Len(files) : i < j => ~text_lt(s[j], s[i])

\* the files main() may find in the directory, in the order the listing gives
FilePool == {<<"G", "u", "n", "t", "u", "r">>, <<"A", "d", "o", "n", "i">>, <<"Z", "e", "d">>}

Listings ==
    {s \in UNION {[1..n -> FilePool] : n \in 1..Cardinality(FilePool)} :
        \A i, j \in 1..Len(s) : i # j => s[i] # s[j]}

\* column titles of a sheet
ExcelHeaders ==
    {<<<<"S", "l", " ", "N", "o">>, <<"A", "P", " ", "G", "a", "z", "e", "t", "t", "e", " ", "N", "o">>, <<"N", "a", "m", "e", " ", "o", "f", " ", "I", "n", "s", "t", "i", "t", "u", "t", "i", "o", "n">>, <<"R", "e", "m", "a", "r", "k", "s">>>>,
     <<<<"N", "a", "m", "e", " ", "o", "f", " ", "I", "n", "s", "t", "i", "t", "u", "t", "i", "o", "n">>, <<"R", "e", "m", "a", "r", "k", "s">>, <<"A", "p", " ", "G", "a", "z", "e", "t", "t", "e", " ", "N", "o">>>>,
     <<<<"S", "l", " ", "N", "o">>, <<"A", "P", " ", "G", "a", "z", "e", "t", "t", "e", " ", "N", "o">>, <<"I", "n", "s", "t", "i", "t", "u", "t", "i", "o", "n">>, <<"R", "e", "m", "a", "r", "k", "s">>>>,
     <<<<"C", "o", "d", "e">>, <<"N", "a", "m", "e", " ", "o", "f", " ", "I", "n", "s", "t", "i", "t", "u", "t", "i", "o", "n">>, <<"R", "e", "m", "a", "r", "k", "s">>>>}

\* rows of a sheet, in the column order <<serial, ApNo, name, remarks>>
ExcelRows ==
    {<<<<"1">>, <<"A", "1", "2", "3", "4">>, <<"M", "a", "s", "j", "i", "d">>, <<"p", "a", "i", "d">>>>,
     <<<<"2">>, <<"A", "1", "2", "3", "4">>, <<"M", "a", "s", "j", "i", "d">>, <<"d", "u", "e">>>>,
     <<<<"3">>, <<"B", "5", "6", "7", "8">>, <<"D", "a", "r", "g", "a", "h">>, <<"p", "a", "i", "d">>>>,
     <<None, <<"A", "P", " ", "G", "a", "z", "e", "t", "t", "e", " ", "N", "o">>, <<"N", "a", "m", "e", " ", "o", "f", " ", "I", "n", "s", "t", "i", "t", "u", "t", "i", "o", "n">>, <<"R", "e", "m", "a", "r", "k", "s">>>>,
     <<<<"4">>, None, <<"M", "a", "s", "j", "i", "d">>, <<"p", "a", "i", "d">>>>}

StoredInstitutions ==
    {<<>>, <<[ap |-> <<"A", "1", "2", "3", "4">>, name |-> <<"M", "a", "s", "j", "i", "d">>]>>}

\* what process_excel_file returns to main, together with what became of the
\* identity columns and the rows read and write calls issued for the sheet
SheetResult(file, status, identity, st) ==
    [file |-> file, status |-> status, identity |-> identity,
     rows |-> st.processed, writes |-> st.writes,
     created |-> st.created, updated |-> st.updated,
     skipped |-> st.skipped, errors |-> st.errors]

\* get_district_id, get_inspector_id, get_institution_id: the id of the first
\* row returned, None when none is returned or the lookup raises
get_id(response, id) == IF response = "ok" THEN id ELSE None

\* the mapping resolved for each sheet layout, and what the row loop reads
\* from each row under a mapping: the cleaned identity cells, the verdict of
\* the classifier, the cleaned remarks
Resolved_excel == [columns \in ExcelHeaders |-> resolve_excel(columns)]

Read_excel ==
    [mapping \in {Resolved_excel[columns] : columns \in ExcelHeaders}, row \in ExcelRows |->
        [ap_no |-> clean_text_excel(cell(row, mapping.ap_no_col)),
         verdict |-> classify_excel(cell(row, mapping.ap_no_col),
                                    cell(row, mapping.name_col)),
         remarks |-> clean_text_excel(cell(row, mapping.remarks_col))]]

\* a validation that lets every sheet through to the row loop
critical_ignored(ap_no_col, name_col) == FALSE

critical_missing(ap_no_col, name_col) == ap_no_col = NoCol \/ name_col = NoCol

\* whether the identity columns of a sheet were both resolved
Identity(mapping) ==
    IF mapping.ap_no_col = NoCol \/ mapping.name_col = NoCol THEN "unresolved" ELSE "resolved"

ExcelInit ==
    /\ PureIdle
    /\ script = "dcb_from_excel"
    /\ pc = "start"
    /\ sheets \in Listings
    /\ sheetIdx = 0
    /\ cols = NoCols
    /\ rows = <<>>
    /\ rowIdx = 0
    /\ run = 1
    /\ store \in {[EmptyStore EXCEPT !.institutions = i] : i \in StoredInstitutions}
    /\ faults = 0
    /\ calls = <<>>
    /\ stats = NoStats
    /\ results = <<>>
    /\ buffer = <<>>
    /\ batchIdx = 0
    /\ trail = NoTrail

\* main: the files are put in sorted order and processed one by one
ExcelMain ==
    /\ script = "dcb_from_excel" /\ pc = "start"
    /\ sheets' = sorted(sheets)
    /\ sheetIdx' = 1
    /\ pc' = "sheet"
    /\ UNCHANGED <<pureVars, lib, script, cols, rows, rowIdx, run, store, faults,
                   calls, stats, results, buffer, batchIdx, trail>>

\* process_excel_file up to the row loop: district and inspector lookups,
\* reading the sheet, resolving its columns
ExcelOpen ==
    /\ script = "dcb_from_excel" /\ pc = "sheet" /\ sheetIdx <= Len(sheets)
    /\ \E columns \in ExcelHeaders \cup {None} :
        LET file == sheets[sheetIdx]
            mapped == file \in DISTRICT_MAPPING
            resolution == IF columns = None THEN NoCols ELSE Resolved_excel[columns]
        IN \E district \in {"ok", "none", "raise"}, inspector \in {"ok", "none", "raise"} :
        LET district_id == get_id(district, file)
            inspector_id == get_id(inspector, file)
            looked_up == IF ~mapped THEN <<>>
                         ELSE IF district_id = None THEN <<district>>
                         ELSE <<district, inspector>>
            raised == Cardinality({i \in DOMAIN looked_up : looked_up[i] = "raise"})
            read == mapped /\ district_id # None /\ inspector_id # None /\ columns # None
            mapping == IF read THEN resolution ELSE NoCols
            status == IF ~mapped THEN "skipped"
                      ELSE IF ~read THEN "error"
                      ELSE IF critical_missing(mapping.ap_no_col, mapping.name_col)
                           THEN "error"
                      ELSE "rows"
        IN /\ faults + raised <= MaxFaults
           /\ faults' = faults + raised
           /\ calls' = [i \in DOMAIN looked_up |->
                           Call("select", IF i = 1 THEN "districts" ELSE "profiles", <<file>>)]
           /\ stats' = NoStats
           /\ rowIdx' = 0
           /\ trail' = NoTrail
           /\ IF status = "rows"
              THEN /\ pc' = "rows"
                   /\ cols' = mapping
                   /\ UNCHANGED <<results, sheetIdx>>
              ELSE /\ pc' = "sheet"
                   /\ cols' = NoCols
                   /\ results' = Append(results,
                          SheetResult(file, status,
                                      IF read THEN "unresolved" ELSE "unread", NoStats))
                   /\ sheetIdx' = sheetIdx + 1
    /\ UNCHANGED <<pureVars, lib, script, sheets, rows, run, store, buffer, batchIdx>>

\* one iteration of the row loop of process_excel_file; the first store call
\* that does not answer normally ends the handling of the row, so one row
\* meets at most one such call
ExcelRow ==
    /\ script = "dcb_from_excel" /\ pc = "rows" /\ rowIdx < MaxRows
    /\ \E row \in ExcelRows :
        LET ap_no == Read_excel[cols, row].ap_no
            verdict == Read_excel[cols, row].verdict
            remarks == Read_excel[cols, row].remarks
        IN \E fault \in {"none", "lookup_raise", "existing_raise", "write_raise",
                         "write_empty"} :
        LET institution_id ==
                IF has_institution(store, ap_no)
                THEN get_id(IF fault = "lookup_raise" THEN "raise" ELSE "ok", ap_no)
                ELSE None
            key == <<institution_id, DEFAULT_FINANCIAL_YEAR>>
            dcb_data == [name |-> None, remarks |-> remarks]
            exists == has_dcb(store, key)
            outcome == IF verdict # "accepted" THEN "skipped"
                       ELSE IF institution_id = None THEN "no_institution"
                       ELSE IF fault \in {"existing_raise", "write_raise"} THEN "raised"
                       ELSE IF fault = "write_empty" THEN "failed"
                       ELSE IF exists THEN "updated" ELSE "created"
            issued == IF verdict # "accepted" THEN 0
                      ELSE IF institution_id = None THEN 1
                      ELSE IF fault = "existing_raise" THEN 2
                      ELSE 3
            met == IF fault = "none" THEN 0
                   ELSE IF fault = "lookup_raise" THEN 1
                   ELSE IF fault = "existing_raise" THEN 2
                   ELSE 3
            sent == <<Call("select", "institutions", <<ap_no>>),
                      Call("select", "institution_dcb", <<key>>),
                      Call(IF exists THEN "update" ELSE "insert", "institution_dcb", <<key>>)>>
        IN /\ fault # "none" => (met <= issued /\ faults < MaxFaults)
           /\ fault = "lookup_raise" => has_institution(store, ap_no)
           /\ faults' = faults + (IF fault = "none" THEN 0 ELSE 1)
           /\ calls' = SubSeq(sent, 1, issued)
           /\ store' = IF outcome = "updated" THEN update_dcb(store, key, dcb_data)
                       ELSE IF outcome = "created" THEN insert_dcb(store, key, dcb_data)
                       ELSE store
           /\ stats' = [stats EXCEPT
                  !.processed = @ + 1,
                  !.skipped = @ + (IF outcome \in {"skipped", "no_institution", "raised"}
                                   THEN 1 ELSE 0),
                  !.created = @ + (IF outcome = "created" THEN 1 ELSE 0),
                  !.updated = @ + (IF outcome = "updated" THEN 1 ELSE 0),
                  !.errors = @ + (IF outcome \in {"raised", "failed"} THEN 1 ELSE 0),
                  !.writes = @ + (IF issued = 3 THEN 1 ELSE 0)]
           /\ trail' = [verdict |-> verdict,
                        cleaned |-> IF outcome \in {"skipped", "no_institution"}
                                    THEN {"ap_no", "institution_name"}
                                    ELSE {"ap_no", "institution_name", "remarks"},
                        outcome |-> outcome]
    /\ rowIdx' = rowIdx + 1
    /\ UNCHANGED <<pureVars, lib, script, pc, sheets, sheetIdx, cols, rows, run,
                   results, buffer, batchIdx>>

\* the sheet has no more rows: the summary of the sheet is returned to main
ExcelClose ==
    /\ script = "dcb_from_excel" /\ pc = "rows"
    /\ results' = Append(results, SheetResult(sheets[sheetIdx], "success", Identity(cols), stats))
    /\ sheetIdx' = sheetIdx + 1
    /\ pc' = "sheet"
    /\ calls' = <<>>
    /\ UNCHANGED <<pureVars, lib, script, sheets, cols, rows, rowIdx, run, store,
                   faults, stats, buffer, batchIdx, trail>>

\* main after the last file: the final summary
ExcelSummary ==
    /\ script = "dcb_from_excel" /\ pc = "sheet" /\ sheetIdx > Len(sheets)
    /\ pc' = "done"
    /\ calls' = <<>>
    /\ UNCHANGED <<pureVars, lib, script, sheets, sheetIdx, cols, rows, rowIdx, run,
                   store, faults, stats, results, buffer, batchIdx, trail>>

ExcelNext == ExcelMain \/ ExcelOpen \/ ExcelRow \/ ExcelClose \/ ExcelSummary

SpecExcel == ExcelInit /\ [][ExcelNext]_vars

SpecExcelFair == ExcelInit /\ [][ExcelNext]_vars /\ WF_vars(ExcelNext)

\* C7: a sheet that ends in error does not stop the run: the sheets are
\* processed one at a time, each exactly once, in sorted order, each has its
\* result before the next one starts, and the run reaches the final summary
\* with one result per sheet.
C7_EverySheetOnceInOrder ==
    /\ [](pc \notin {"start", "idle"} =>
            /\ Len(results) <= Len(sheets)
            /\ \A i \in 1..Len(results) : results[i].file = sheets[i]
            /\ \A i, j \in 1..Len(results) :
                  i < j => text_lt(results[i].file, results[j].file)
            /\ \A i \in 1..Len(results) :
                  results[i].status \in {"success", "error", "skipped"}
            /\ pc \in {"sheet", "rows"} => Len(results) = sheetIdx - 1
            /\ pc = "done" => Len(results) = Len(sheets))
    /\ <>(pc = "done")

C7_RunContinuesAfterFatalSheet ==
    /\ pc = "done"
    /\ Len(results) = 3
    /\ results[1].status = "error"
    /\ results[1].identity = "unresolved"
    /\ results[2].status = "success"
    /\ results[2].created = 1

-----------------------------------------------------------------------------
(* Runs of the scripts that handle one sheet or one file *)

\* the state in which a script starts with the given input and store
RunStart(name, at, files, st) ==
    /\ PureIdle
    /\ script = name
    /\ pc = at
    /\ sheets = files
    /\ sheetIdx = 1
    /\ cols = NoCols
    /\ rows = <<>>
    /\ rowIdx = 0
    /\ run = 1
    /\ store = st
    /\ faults = 0
    /\ calls = <<>>
    /\ stats = NoStats
    /\ results = <<>>
    /\ buffer = <<>>
    /\ batchIdx = 0
    /\ trail = NoTrail

\* the institution of an ApNo is created, or the existing one is overwritten
upsert_institution(st, ap, name) ==
    IF has_institution(st, ap)
    THEN [st EXCEPT !.institutions =
              [i \in DOMAIN @ |-> IF @[i].ap = ap THEN [ap |-> ap, name |-> name] ELSE @[i]]]
    ELSE [st EXCEPT !.institutions = Append(@, [ap |-> ap, name |-> name])]

-----------------------------------------------------------------------------
(* scripts/import_institutions_from_excel.py: process_excel_file *)

Resolved_institutions == [columns \in ExcelHeaders |-> resolve_institutions(columns)]

Read_institutions ==
    [mapping \in {Resolved_institutions[columns] : columns \in ExcelHeaders},
     row \in ExcelRows |->
        [ap_no |-> clean_text_excel(cell(row, mapping.ap_no_col)),
         institution_name |-> clean_text_excel(cell(row, mapping.name_col)),
         verdict |-> classify_institutions(cell(row, mapping.ap_no_col),
                                           cell(row, mapping.name_col))]]

InstitutionsInit ==
    \E file \in FilePool, stored \in StoredInstitutions :
        RunStart("institutions", "sheet", <<file>>,
                 [EmptyStore EXCEPT !.institutions = stored])

\* process_excel_file up to the row loop: the district lookup, reading the
\* sheet, resolving its columns by title and then by position
InstitutionsOpen ==
    /\ script = "institutions" /\ pc = "sheet"
    /\ \E columns \in ExcelHeaders \cup {None}, district \in {"ok", "none", "raise"} :
        LET file == sheets[1]
            mapped == file \in DISTRICT_MAPPING
            district_id == get_id(district, file)
            status == IF ~mapped THEN "skipped"
                      ELSE IF district_id = None \/ columns = None THEN "error"
                      ELSE "rows"
        IN /\ (mapped /\ district = "raise") => faults < MaxFaults
           /\ faults' = faults + (IF mapped /\ district = "raise" THEN 1 ELSE 0)
           /\ calls' = IF mapped THEN <<Call("select", "districts", <<file>>)>> ELSE <<>>
           /\ IF status = "rows"
              THEN /\ pc' = "rows"
                   /\ cols' = Resolved_institutions[columns]
                   /\ UNCHANGED results
              ELSE /\ pc' = "done"
                   /\ cols' = NoCols
                   /\ results' = Append(results, SheetResult(file, status, "unread", NoStats))
    /\ UNCHANGED <<pureVars, lib, script, sheets, sheetIdx, rows, rowIdx, run, store,
                   stats, buffer, batchIdx, trail>>

\* one iteration of the row loop: the identity cells, mandal and village are
\* cleaned, the row is classified, the institution is looked up and then
\* updated or created
InstitutionsRow ==
    /\ script = "institutions" /\ pc = "rows" /\ rowIdx < MaxRows
    /\ \E row \in ExcelRows :
        LET ap_no == Read_institutions[cols, row].ap_no
            institution_name == Read_institutions[cols, row].institution_name
            verdict == Read_institutions[cols, row].verdict
        IN \E fault \in {"none", "existing_raise", "write_raise", "write_empty"} :
        LET exists == has_institution(store, ap_no)
            outcome == IF verdict # "accepted" THEN "skipped"
                       ELSE IF fault \in {"existing_raise", "write_raise"} THEN "raised"
                       ELSE IF fault = "write_empty" THEN "failed"
                       ELSE IF exists THEN "updated" ELSE "created"
            issued == IF verdict # "accepted" THEN 0
                      ELSE IF fault = "existing_raise" THEN 1
                      ELSE 2
            sent == <<Call("select", "institutions", <<ap_no>>),
                      Call(IF exists THEN "update" ELSE "insert", "institutions", <<ap_no>>)>>
        IN /\ fault # "none" => (verdict = "accepted" /\ faults < MaxFaults)
           /\ faults' = faults + (IF fault = "none" THEN 0 ELSE 1)
           /\ calls' = SubSeq(sent, 1, issued)
           /\ store' = IF outcome \in {"updated", "created"}
                       THEN upsert_institution(store, ap_no, institution_name)
                       ELSE store
           /\ stats' = [stats EXCEPT
                  !.processed = @ + 1,
                  !.created = @ + (IF outcome = "created" THEN 1 ELSE 0),
                  !.updated = @ + (IF outcome = "updated" THEN 1 ELSE 0),
                  !.errors = @ + (IF outcome = "raised" THEN 1 ELSE 0),
                  !.writes = @ + (IF issued = 2 THEN 1 ELSE 0)]
           /\ trail' = [verdict |-> verdict,
                        cleaned |-> {"ap_no", "institution_name", "mandal", "village"},
                        outcome |-> outcome]
    /\ rowIdx' = rowIdx + 1
    /\ UNCHANGED <<pureVars, lib, script, pc, sheets, sheetIdx, cols, rows, run,
                   results, buffer, batchIdx>>

\* the sheet has no more rows: the summary of the sheet is returned
InstitutionsClose ==
    /\ script = "institutions" /\ pc = "rows"
    /\ results' = Append(results, SheetResult(sheets[1], "success", Identity(cols), stats))
    /\ pc' = "done"
    /\ calls' = <<>>
    /\ UNCHANGED <<pureVars, lib, script, sheets, sheetIdx, cols, rows, rowIdx, run,
                   store, faults, stats, buffer, batchIdx, trail>>

InstitutionsNext == InstitutionsOpen \/ InstitutionsRow \/ InstitutionsClose

-----------------------------------------------------------------------------
(* Sheets and batches of the consolidated workbook importers *)

MaxRecords == 3

BatchSize == 2

Min(a, b) == IF a < b THEN a ELSE b

\* column titles of the first sheet of the workbook
ConsolidatedHeaders ==
    {<<<<"A", "p", " ", "G", "a", "z", "e", "t", "t", "e", " ", "N", "o">>, <<"N", "a", "m", "e", " ", "o", "f", " ", "i", "n", "s", "t", "i", "t", "u", "t", "i", "o", "n">>, <<"D", "i", "s", "t", "r", "i", "c", "t">>, <<"R", "e", "m", "a", "r", "k", "s">>>>,
     <<<<"A", "P", " ", "N", "o">>, <<"N", "a", "m", "e", " ", "o", "f", " ", "I", "n", "s", "t", "i", "t", "u", "t", "i", "o", "n">>, <<"D", "i", "s", "t", "r", "i", "c", "t">>, <<"R", "e", "m", "a", "r", "k", "s">>>>,
     <<<<"A", "p", " ", "G", "a", "z", "e", "t", "t", "e", " ", "N", "o">>, <<"I", "n", "s", "t", "i", "t", "u", "t", "i", "o", "n">>, <<"R", "e", "m", "a", "r", "k", "s">>>>}

\* rows of the sheet, in the column order <<ApNo, name, district, remarks>>
ConsolidatedRows ==
    {<<<<"A", "1", "2", "3", "4">>, <<"M", "a", "s", "j", "i", "d">>, <<"G", "u", "n", "t", "u", "r">>, <<"p", "a", "i", "d">>>>,
     <<<<"A", "1", "2", "3", "4">>, <<"M", "a", "s", "j", "i", "d">>, <<"G", "u", "n", "t", "u", "r">>, <<"d", "u", "e">>>>,
     <<<<"B", "5", "6", "7", "8">>, <<"D", "a", "r", "g", "a", "h">>, <<"G", "u", "n", "t", "u", "r">>, <<"p", "a", "i", "d">>>>,
     <<None, <<"M", "a", "s", "j", "i", "d">>, <<"G", "u", "n", "t", "u", "r">>, <<"p", "a", "i", "d">>>>,
     <<<<"C", "9", "0", "1", "2">>, <<"I", "d", "g", "a", "h">>, <<"K", "a", "d", "a", "p", "a">>, <<"p", "a", "i", "d">>>>}

ConsolidatedSheets == UNION {[1..n -> ConsolidatedRows] : n \in 1..MaxRecords}

Record(key, name, remarks) == [key |-> key, data |-> [name |-> name, remarks |-> remarks]]

Keys(records) == [k \in DOMAIN records |-> records[k].key]

Repeats(keys) == \E i, j \in DOMAIN keys : i < j /\ keys[i] = keys[j]

\* records[: i + batch_size]
Prefix(records, i, size) == SubSeq(records, 1, Min(i + size, Len(records)))

\* records[i : i + batch_size]
Batch(records, i, size) == SubSeq(records, i + 1, Min(i + size, Len(records)))

\* a table with a unique constraint on the key refuses an insert call that
\* brings a key it holds or the same key twice
refuses(st, keys) ==
    st.unique /\ (Repeats(keys) \/ \E k \in DOMAIN keys : has_dcb(st, keys[k]))

\* the per-record inserts that follow a failed batch, in order; `down` when the
\* store answers no call at all
RECURSIVE insert_each(_, _, _)
insert_each(st, records, down) ==
    IF records = <<>> THEN [store |-> st, inserted |-> 0, failed |-> 0]
    ELSE LET record == Head(records)
             refused == down \/ refuses(st, <<record.key>>)
             rest == insert_each(IF refused THEN st
                                 ELSE insert_dcb(st, record.key, record.data),
                                 Tail(records), down)
         IN [store |-> rest.store,
             inserted |-> rest.inserted + (IF refused THEN 0 ELSE 1),
             failed |-> rest.failed + (IF refused THEN 1 ELSE 0)]

-----------------------------------------------------------------------------
(* scripts/import_consolidated_excel.py: import_excel_data, run twice over the
   same sheet *)

Read_consolidated ==
    [columns \in ConsolidatedHeaders, row \in ConsolidatedRows |->
        LET mapping == resolve_consolidated(columns)
        IN Record(<<clean_text_consolidated(cell(row, mapping.ap_no_col)), "2024-25">>,
                  clean_text_consolidated(cell(row, mapping.name_col)),
                  clean_text_consolidated(cell(row, mapping.remarks_col)))]

ConsolidatedInit ==
    \E unique \in BOOLEAN :
        RunStart("consolidated", "read", <<>>, [EmptyStore EXCEPT !.unique = unique])

\* pd.read_excel and the column mapping; a sheet that cannot be read ends the
\* run
ConsolidatedRead ==
    /\ script = "consolidated" /\ pc = "read"
    /\ \E columns \in ConsolidatedHeaders \cup {None} :
        IF columns = None
        THEN /\ pc' = "done"
             /\ results' = Append(results, [run |-> run, read |-> FALSE, stats |-> NoStats,
                                            store |-> store])
             /\ UNCHANGED <<sheets, rows>>
        ELSE /\ pc' = "rows"
             /\ sheets' = <<columns>>
             /\ rows' \in ConsolidatedSheets
             /\ UNCHANGED results
    /\ UNCHANGED <<pureVars, lib, script, sheetIdx, cols, rowIdx, run, store, faults,
                   calls, stats, buffer, batchIdx, trail>>

\* one iteration of the row loop: every cell of the row is cleaned into the
\* record, then a record without ApNo is reported as an error
ConsolidatedRow ==
    /\ script = "consolidated" /\ pc = "rows" /\ rowIdx < Len(rows)
    /\ LET record == Read_consolidated[sheets[1], rows[rowIdx + 1]]
           missing == record.key[1] = None
       IN /\ buffer' = IF missing THEN buffer ELSE Append(buffer, record)
          /\ stats' = [stats EXCEPT !.processed = @ + 1,
                                    !.errors = @ + (IF missing THEN 1 ELSE 0)]
          /\ trail' = [verdict |-> IF missing THEN "missing" ELSE "accepted",
                       cleaned |-> {"ap_no", "institution_name", "remarks"},
                       outcome |-> IF missing THEN "skipped" ELSE "prepared"]
    /\ rowIdx' = rowIdx + 1
    /\ pc' = IF rowIdx + 1 = Len(rows) THEN "batches" ELSE "rows"
    /\ calls' = <<>>
    /\ UNCHANGED <<pureVars, lib, script, sheets, sheetIdx, cols, rows, run, store,
                   faults, results, batchIdx>>

\* one iteration of the batch loop: the batch is inserted in one call; when
\* that call raises, its records are inserted one by one
ConsolidatedBatch ==
    /\ script = "consolidated" /\ pc = "batches" /\ batchIdx * BatchSize < Len(buffer)
    /\ \E fault \in {"none", "batch_raise", "store_down"} :
        LET batch == Batch(buffer, batchIdx * BatchSize, BatchSize)
            rejected == fault # "none" \/ refuses(store, Keys(batch))
            each == insert_each(store, batch, fault = "store_down")
        IN /\ fault # "none" => faults < MaxFaults
           /\ faults' = faults + (IF fault = "none" THEN 0 ELSE 1)
           /\ calls' = <<Call("insert", "institution_dcb", Keys(batch))>>
                       \o (IF rejected
                           THEN [k \in DOMAIN batch |->
                                    Call("insert", "institution_dcb", <<batch[k].key>>)]
                           ELSE <<>>)
           /\ store' = IF rejected THEN each.store
                       ELSE insert_each(store, batch, FALSE).store
           /\ stats' = [stats EXCEPT
                  !.inserted = @ + (IF rejected THEN each.inserted ELSE Len(batch)),
                  !.failed = @ + (IF rejected THEN Len(batch) + each.failed ELSE 0),
                  !.writes = @ + 1 + (IF rejected THEN Len(batch) ELSE 0)]
           /\ trail' = [verdict |-> "accepted", cleaned |-> {},
                        outcome |-> IF ~rejected THEN "batch_stored"
                                    ELSE IF fault = "store_down" THEN "store_down"
                                    ELSE "batch_rejected"]
    /\ batchIdx' = batchIdx + 1
    /\ UNCHANGED <<pureVars, lib, script, pc, sheets, sheetIdx, cols, rows, rowIdx, run,
                   results, buffer>>

\* after the last batch: the totals are printed
ConsolidatedDone ==
    /\ script = "consolidated" /\ pc = "batches" /\ batchIdx * BatchSize >= Len(buffer)
    /\ pc' = "done"
    /\ results' = Append(results, [run |-> run, read |-> TRUE, stats |-> stats,
                                   store |-> store])
    /\ calls' = <<>>
    /\ UNCHANGED <<pureVars, lib, script, sheets, sheetIdx, cols, rows, rowIdx, run,
                   store, faults, stats, buffer, batchIdx, trail>>

\* the script is started again on the same sheet, the store as the first run
\* left it
ConsolidatedRerun ==
    /\ script = "consolidated" /\ pc = "done" /\ run = 1 /\ rows # <<>>
    /\ run' = 2
    /\ pc' = "rows"
    /\ rowIdx' = 0
    /\ buffer' = <<>>
    /\ batchIdx' = 0
    /\ stats' = NoStats
    /\ trail' = NoTrail
    /\ UNCHANGED <<pureVars, lib, script, sheets, sheetIdx, cols, rows, store, faults,
                   calls, results>>

ConsolidatedNext ==
    \/ ConsolidatedRead
    \/ ConsolidatedRow
    \/ ConsolidatedBatch
    \/ ConsolidatedDone
    \/ ConsolidatedRerun

-----------------------------------------------------------------------------
(* scripts/import_waqf_consolidated_excel.py: main *)

\* `for rec in payload: by_key[key] = rec`, then list(by_key.values()): one
\* record per key, at the place of the key's first record, the last one seen
dedupe(records) ==
    LET firsts == {i \in DOMAIN records :
                      \A j \in 1..(i - 1) : records[j].key # records[i].key}
        nth(n) == CHOOSE i \in firsts : Cardinality({j \in firsts : j < i}) = n - 1
        last(i) == CHOOSE j \in DOMAIN records :
                      /\ records[j].key = records[i].key
                      /\ \A k \in (j + 1)..Len(records) : records[k].key # records[i].key
    IN [n \in 1..Cardinality(firsts) |-> records[last(nth(n))]]

\* the required columns none of whose aliases is a column of the sheet
missing_required(mapping) ==
    mapping.ap_no_col = NoCol \/ mapping.name_col = NoCol \/ mapping.district_col = NoCol

NoCols_waqf == [ap_no_col |-> NoCol, name_col |-> NoCol, district_col |-> NoCol,
                remarks_col |-> NoCol]

\* the names of the districts table, and the districts that have an inspector
Districts_waqf == {<<"G", "u", "n", "t", "u", "r">>}

\* the institutions already in the table: none, one of a district of the
\* districts table, one whose district_id is NULL
StoredInstitutions_waqf ==
    {<<>>,
     <<[ap |-> <<"A", "1", "2", "3", "4">>, name |-> <<"M", "a", "s", "j", "i", "d">>, district_id |-> <<"G", "u", "n", "t", "u", "r">>]>>,
     <<[ap |-> <<"C", "9", "0", "1", "2">>, name |-> <<"I", "d", "g", "a", "h">>, district_id |-> <<"G", "u", "n", "t", "u", "r">>]>>,
     <<[ap |-> <<"C", "9", "0", "1", "2">>, name |-> <<"I", "d", "g", "a", "h">>, district_id |-> None]>>}

\* upsert(..., on_conflict="ap_gazette_no") of one record of inst_payload
upsert_institution_waqf(st, record) ==
    LET row == [ap |-> record.key[1], name |-> record.data.name,
                district_id |-> record.data.district_id]
    IN IF has_institution(st, row.ap)
       THEN [st EXCEPT !.institutions =
                 [i \in DOMAIN @ |-> IF @[i].ap = row.ap THEN row ELSE @[i]]]
       ELSE [st EXCEPT !.institutions = Append(@, row)]

\* inst_district_by_id.get(institution_id), of the institutions as stored
inst_district_by_id(st, ap) ==
    IF has_institution(st, ap)
    THEN st.institutions[CHOOSE i \in 1..Len(st.institutions) :
                             st.institutions[i].ap = ap].district_id
    ELSE None

\* a second pass that asks for the ApNo alone
has_ap(st, inspectors, ap) == ap # None

\* the second pass keeps a row: its ApNo is read, an institution of that
\* ApNo is stored, and the stored district of it has an inspector
has_inspector(st, inspectors, ap) ==
    /\ ap # None
    /\ has_institution(st, ap)
    /\ inst_district_by_id(st, ap) \in inspectors

RECURSIVE upsert_each(_, _, _)
upsert_each(st, records, table) ==
    IF records = <<>> THEN st
    ELSE LET record == Head(records)
         IN upsert_each(IF table = "institutions"
                        THEN upsert_institution_waqf(st, record)
                        ELSE IF has_dcb(st, record.key)
                             THEN update_dcb(st, record.key, record.data)
                             ELSE insert_dcb(st, record.key, record.data),
                        Tail(records), table)

Resolved_waqf == [columns \in ConsolidatedHeaders |-> resolve_waqf(columns)]

\* what the two passes read from a row under a mapping, and the id
\* district_by_name has for its district
Read_waqf ==
    [mapping \in {Resolved_waqf[columns] : columns \in ConsolidatedHeaders},
     row \in ConsolidatedRows |->
        LET district_name == clean_text_waqf(cell(row, mapping.district_col))
        IN [ap |-> clean_text_waqf(cell(row, mapping.ap_no_col)),
            name |-> clean_text_waqf(cell(row, mapping.name_col)),
            district_name |-> district_name,
            district_id |->
                IF district_name # None
                   /\ \E d \in Districts_waqf : norm_name(d) = norm_name(district_name)
                THEN district_name ELSE None,
            remarks |-> clean_text_waqf(cell(row, mapping.remarks_col))]]

WaqfInit ==
    \E stored \in StoredInstitutions_waqf :
        RunStart("waqf", "read", <<>>, [EmptyStore EXCEPT !.institutions = stored])

\* main up to the first pass: the sheet is read, the columns are picked, the
\* required ones are checked, districts and inspectors are loaded
WaqfRead ==
    /\ script = "waqf" /\ pc = "read"
    /\ \E columns \in ConsolidatedHeaders \cup {None} :
        LET mapping == IF columns = None THEN NoCols_waqf ELSE Resolved_waqf[columns]
        IN \E sheet \in ConsolidatedSheets, load \in {"ok", "raise"},
              inspectors \in SUBSET Districts_waqf :
           IF columns = None
           THEN /\ pc' = "aborted"
                /\ UNCHANGED <<sheets, rows, cols, calls, faults>>
           ELSE /\ rows' = sheet
                /\ IF missing_required(mapping)
                   THEN /\ pc' = "fatal"
                        /\ cols' = mapping
                        /\ sheets' = <<columns, {}>>
                        /\ UNCHANGED <<calls, faults>>
                   ELSE /\ load = "raise" => faults < MaxFaults
                        /\ faults' = faults + (IF load = "raise" THEN 1 ELSE 0)
                        /\ calls' = <<Call("select", "districts", <<>>),
                                      Call("select", "profiles", <<>>)>>
                        /\ cols' = mapping
                        /\ sheets' = <<columns, inspectors>>
                        /\ pc' = IF load = "raise" THEN "aborted" ELSE "institutions"
    /\ UNCHANGED <<pureVars, lib, script, sheetIdx, rowIdx, run, store, stats, results,
                   buffer, batchIdx, trail>>

\* one iteration of the first pass; after the last row the payload is
\* deduplicated by ApNo
WaqfInstitutionRow ==
    /\ script = "waqf" /\ pc = "institutions" /\ rowIdx < Len(rows)
    /\ \E read \in {Read_waqf[cols, rows[rowIdx + 1]]} :
       LET skipped == \/ read.ap = None \/ read.name = None \/ read.district_name = None
                      \/ read.district_id = None
           payload == IF skipped THEN buffer
                      ELSE Append(buffer,
                                  [key |-> <<read.ap>>,
                                   data |-> [name |-> read.name, remarks |-> None,
                                             district_id |-> read.district_id]])
           last == rowIdx + 1 = Len(rows)
       IN /\ buffer' = IF last THEN dedupe(payload) ELSE payload
          /\ stats' = [stats EXCEPT !.processed = @ + 1,
                                    !.skipped = @ + (IF skipped THEN 1 ELSE 0)]
          /\ trail' = [verdict |-> IF skipped THEN "missing" ELSE "accepted",
                       cleaned |-> {"ap_no", "institution_name", "district_name"},
                       outcome |-> IF skipped THEN "skipped" ELSE "prepared"]
          /\ pc' = IF ~last THEN "institutions"
                   ELSE IF payload = <<>> THEN "reload" ELSE "upsert_institutions"
    /\ rowIdx' = rowIdx + 1
    /\ batchIdx' = 0
    /\ calls' = <<>>
    /\ UNCHANGED <<pureVars, lib, script, sheets, sheetIdx, cols, rows, run, store,
                   faults, results>>

\* one iteration of a batch loop; nothing catches the exception of a
\* rejected call
WaqfUpsert(at, table, after) ==
    /\ \E fault \in {"none", "raise"} :
        LET batch == Batch(buffer, batchIdx * BatchSize, BatchSize)
            rejected == fault = "raise" \/ Repeats(Keys(batch))
        IN /\ fault # "none" => faults < MaxFaults
           /\ faults' = faults + (IF fault = "none" THEN 0 ELSE 1)
           /\ calls' = <<Call("upsert", table, Keys(batch))>>
           /\ store' = IF rejected THEN store ELSE upsert_each(store, batch, table)
           /\ stats' = [stats EXCEPT !.writes = @ + 1]
           /\ trail' = [verdict |-> "accepted", cleaned |-> {},
                        outcome |-> IF rejected THEN "batch_rejected" ELSE "batch_stored"]
           /\ pc' = IF rejected THEN "aborted"
                    ELSE IF (batchIdx + 1) * BatchSize >= Len(buffer) THEN after
                    ELSE at
    /\ batchIdx' = batchIdx + 1
    /\ UNCHANGED <<pureVars, lib, script, sheets, sheetIdx, cols, rows, rowIdx, run,
                   results, buffer>>

WaqfUpsertInstitutions ==
    /\ script = "waqf" /\ pc = "upsert_institutions"
    /\ WaqfUpsert("upsert_institutions", "institutions", "reload")

\* the institutions are loaded again, the second pass builds the ledger
\* payload from the rows whose institution and inspector are known, and the
\* payload is deduplicated by institution and financial year
WaqfReload ==
    /\ script = "waqf" /\ pc = "reload"
    /\ \E load \in {"ok", "raise"} :
        LET inspectors == sheets[2]
            Kept(row) == has_inspector(store, inspectors, Read_waqf[cols, row].ap)
            kept == SelectSeq(rows, Kept)
            Payload(row) == LET read == Read_waqf[cols, row]
                            IN Record(<<read.ap, DEFAULT_FINANCIAL_YEAR>>, None, read.remarks)
            payload == [k \in DOMAIN kept |-> Payload(kept[k])]
        IN /\ load = "raise" => faults < MaxFaults
           /\ faults' = faults + (IF load = "raise" THEN 1 ELSE 0)
           /\ calls' = <<Call("select", "institutions", <<>>)>>
           /\ IF load = "raise"
              THEN /\ pc' = "aborted"
                   /\ UNCHANGED <<buffer, stats>>
              ELSE /\ buffer' = dedupe(payload)
                   /\ stats' = [stats EXCEPT !.dcb_skipped = Len(rows) - Len(kept)]
                   /\ pc' = IF payload = <<>> THEN "done" ELSE "upsert_dcb"
    /\ batchIdx' = 0
    /\ trail' = NoTrail
    /\ UNCHANGED <<pureVars, lib, script, sheets, sheetIdx, cols, rows, rowIdx, run,
                   store, results>>

WaqfUpsertDcb ==
    /\ script = "waqf" /\ pc = "upsert_dcb"
    /\ WaqfUpsert("upsert_dcb", "institution_dcb", "done")

WaqfNext ==
    \/ WaqfRead
    \/ WaqfInstitutionRow
    \/ WaqfUpsertInstitutions
    \/ WaqfReload
    \/ WaqfUpsertDcb

-----------------------------------------------------------------------------
(* scripts/import_dcb_complete.py: process_sheet *)

DISTRICT_MAPPING_complete ==
    <<"E", "L", "U", "R", "U", "-", "2", "0", "2", "5", "-", "2", "0", "2", "6">> :> <<"E", "L", "U", "R", "U">> @@
    <<"V", "Z", "N", "-", "2", "0", "2", "5", "-", "2", "6", " ", "D", "E", "C", " ", "0", "5">> :> <<"V", "i", "z", "i", "a", "n", "a", "g", "a", "r", "a", "m">> @@
    <<"A", "D", "O", "N", "I", " ", "D", "I", "V", "I", "S", "I", "O", "N">> :> <<"A", "D", "O", "N", "I">> @@
    <<"A", "n", "n", "a", "m", "a", "y", "y", "a", " ", "D", "i", "s", "t", "-", "2", "0", "2", "5", "-", "2", "6">> :> <<"A", "N", "N", "A", "M", "A", "Y", "Y", "A">> @@
    <<"A", "T", "P", "-", "2", "0", "2", "5", "-", "2", "6">> :> <<"A", "N", "A", "N", "T", "A", "P", "U", "R", "A", "M", "U">> @@
    <<"B", "a", "p", "a", "t", "l", "a", " ", "-", "2", "0", "2", "5", "-", "2", "6", " ", "a", "s", " ", "p", "e", "r", " ", "I", ".", "A">> :> <<"B", "A", "P", "A", "T", "L", "A">> @@
    <<"A", "S", "R", "R", "-", "2", "0", "2", "5", "-", "2", "6">> :> <<"A", "l", "l", "u", "r", "i", " ", "S", "e", "e", "t", "h", "a", " ", "R", "a", "m", "a", " ", "R", "a", "j", "u">> @@
    <<"A", "n", "a", "k", "a", "p", "a", "l", "l", "i", "-", "2", "0", "2", "5", "-", "2", "6">> :> <<"A", "n", "k", "a", "p", "a", "l", "l", "i">> @@
    <<"C", "T", "R", "-", "2", "0", "2", "5", "-", "2", "6">> :> <<"C", "H", "I", "T", "T", "O", "O", "R">> @@
    <<"D", "r", ".", "B", ".", "R", ".", "A", ".", "K", " ", "D", "i", "s", "t", ".", ",">> :> <<"B", "r", ".", "A", "m", "b", "e", "d", "k", "a", "r", " ", "K", "o", "n", "a", "s", "e", "e", "m", "a">> @@
    <<"E", "G", " ", "D", "i", "s", "t">> :> <<"E", "a", "s", "t", " ", "G", "o", "d", "a", "v", "a", "r", "i">> @@
    <<"K", "a", "k", "i", "n", "a", "d", "a", " ", "D", "i", "s", "t", " ", "0", "3", " ", "d", "e", "c">> :> <<"K", "A", "K", "I", "N", "A", "D", "A">> @@
    <<"P", "a", "r", "v", "a", "t", "h", "i", "p", "u", "r", "a", "m", " ", "M", "a", "n", "y", "a", "m", " ", "3", " ", "D", "E", "C">> :> <<"P", "a", "r", "v", "a", "t", "h", "i", "p", "u", "r", "a", "m", " ", "M", "a", "n", "y", "a", "m">> @@
    <<"S", "R", "I", "K", "A", "K", "U", "L", "A", "M", " ", "D", "I", "S", "T", "R", "I", "C", "T", " ", "3", " ", "D", "E", "C">> :> <<"S", "r", "i", "k", "a", "k", "u", "l", "a", "m">> @@
    <<"T", "P", "T", "-", "2", "0", "2", "5", "-", "2", "0", "2", "6">> :> <<"T", "I", "R", "U", "P", "A", "T", "I">> @@
    <<"V", "S", "P", "-", "2", "0", "2", "5", "-", "2", "6", " ", "d", "e", "c", " ", "0", "5">> :> <<"V", "I", "S", "A", "K", "H", "A", "P", "A", "T", "N", "A", "M">> @@
    <<"N", "L", "R", " ", "2", "0", "2", "5", "-", "2", "6">> :> <<"N", "E", "L", "L", "O", "R", "E">> @@
    <<"P", "a", "l", "n", "a", "d", "u", "-", "2", "0", "2", "5", "-", "2", "6", " ", "(", "2", ")">> :> <<"P", "A", "L", "N", "A", "D", "U">> @@
    <<"G", "N", "T", " ", "2", "0", "2", "5", "-", "2", "6", " ", "A", "S", " ", "P", "E", "R", " ", "I", ".", "A">> :> <<"G", "U", "N", "T", "U", "R">> @@
    <<"K", "S", "T", " ", "2", "0", "2", "5", "-", "2", "6", " ", "A", "S", " ", "P", "E", "R", " ", "I", ".", "A">> :> <<"K", "r", "i", "s", "h", "n", "a">> @@
    <<"K", "U", "R", "N", "O", "O", "L", " ", "2", "0", "2", "5", "-", "2", "6">> :> <<"K", "U", "R", "N", "O", "O", "L">> @@
    <<"N", "A", "N", "D", "Y", "A", "L", " ", "D", "I", "S", "T", "R", "I", "C", "T">> :> <<"N", "A", "N", "D", "Y", "A", "L">> @@
    <<"N", "T", "R", " ", "2", "0", "2", "5", "-", "2", "6", " ", "A", "S", " ", "P", "E", "R", " ", "I", ".", "A", " ", "D", "E", "C", " ", "0", "4">> :> <<"N", "T", "R">> @@
    <<"P", "r", "a", "k", "a", "s", "a", "m", " ", "2", "0", "2", "5", "-", "2", "6">> :> <<"P", "R", "A", "K", "A", "S", "A", "M">> @@
    <<"S", "R", "I", " ", "S", "A", "T", "H", "Y", "A", " ", "S", "A", "I", " ", "D", "I", "S", "T", "R", "I", "C", "T">> :> <<"S", "r", "i", " ", "S", "a", "t", "y", "a", " ", "S", "a", "i">> @@
    <<"W", "G", " ", "2", "0", "2", "5", "-", "2", "6", " ", "a", "s", " ", "P", "E", "R", " ", "I", ".", "A">> :> <<"W", "e", "s", "t", " ", "G", "o", "d", "a", "v", "a", "r", "i">> @@
    <<"2", "0", "2", "5", "-", "2", "0", "2", "6">> :> None

\* DISTRICT_MAPPING.get(sheet_name, "UNKNOWN")
district_name_complete(sheet_name) ==
    IF sheet_name \in DOMAIN DISTRICT_MAPPING_complete
    THEN DISTRICT_MAPPING_complete[sheet_name] ELSE <<"U", "N", "K", "N", "O", "W", "N">>

\* sheets of the workbook
CompleteSheets == {<<"G", "N", "T", " ", "2", "0", "2", "5", "-", "2", "6", " ", "A", "S", " ", "P", "E", "R", " ", "I", ".", "A">>, <<"2", "0", "2", "5", "-", "2", "0", "2", "6">>, <<"S", "h", "e", "e", "t", "1">>}

\* rows of a sheet: serial, ApNo, name in the first three columns
CompleteRows ==
    {<<<<"2", "1">>, <<"A", "1", "2", "3", "4">>, <<"M", "a", "s", "j", "i", "d">>>>,
     <<<<"2", "2">>, <<"A", "1", "2", "3", "4">>, <<"D", "a", "r", "g", "a", "h">>>>,
     <<<<"1">>, <<"2">>, <<"3">>>>,
     <<<<"2", "3">>, <<"1", "2", "3">>, <<"M", "a", "s", "j", "i", "d">>>>,
     <<None, <<"A", ".", "P", ".", "G", "a", "z", "e", "t", "t", "e", " ", "S", "l", ".", " ", "N", "o", ".">>, <<"N", "a", "m", "e", " ", "o", "f", " ", "t", "h", "e", " ", "I", "n", "s", "t", "i", "t", "u", "t", "i", "o", "n">>>>}

\* what the row loop reads from a row: the stripped identity cells, the
\* verdict, and the cells converted when the verdict is reached
Read_complete ==
    [row \in CompleteRows |->
        LET verdict == classify_complete(cell(row, 0), cell(row, 1), cell(row, 2))
        IN [ap_no |-> str_strip(cell(row, 1)),
            institution_name |-> str_strip(cell(row, 2)),
            verdict |-> verdict,
            cleaned |->
                IF verdict = "column_numbers" THEN {"first_col"}
                ELSE IF verdict = "row_number" THEN {"first_col", "ap_no"}
                ELSE IF verdict = "header" /\ classify_complete(cell(row, 0), cell(row, 1), <<"x">>) = "header"
                     THEN {"first_col", "ap_no"}
                ELSE IF verdict = "header" THEN {"first_col", "ap_no", "institution_name"}
                ELSE {"first_col", "ap_no", "institution_name", "remarks"}]]

CompleteInit ==
    \E sheet \in CompleteSheets, stored \in StoredInstitutions, unique \in BOOLEAN :
        RunStart("dcb_complete", "sheet", <<sheet>>,
                 [EmptyStore EXCEPT !.institutions = stored, !.unique = unique])

\* process_sheet up to the row loop: the sheet is read and its district is
\* looked up; get_district_id lets the exception of the lookup through
CompleteOpen ==
    /\ script = "dcb_complete" /\ pc = "sheet"
    /\ \E read \in {"ok", "raise"}, district \in {"ok", "none", "raise"} :
        LET named == district_name_complete(sheets[1]) # None
            looked_up == read = "ok" /\ named
            district_id == IF named THEN get_id(district, sheets[1]) ELSE None
            status == IF read = "raise" \/ (looked_up /\ district = "raise") THEN "error"
                      ELSE IF district_id = None THEN "skipped"
                      ELSE "rows"
        IN /\ (looked_up /\ district = "raise") => faults < MaxFaults
           /\ faults' = faults + (IF looked_up /\ district = "raise" THEN 1 ELSE 0)
           /\ calls' = IF looked_up THEN <<Call("select", "districts", <<sheets[1]>>)>>
                       ELSE <<>>
           /\ IF status = "rows"
              THEN /\ pc' = "rows"
                   /\ UNCHANGED results
              ELSE /\ pc' = "done"
                   /\ results' = Append(results,
                                        SheetResult(sheets[1], status, "unread", NoStats))
    /\ UNCHANGED <<pureVars, lib, script, sheets, sheetIdx, cols, rows, rowIdx, run, store,
                   stats, buffer, batchIdx, trail>>

\* one iteration of the row loop: the row is classified on its first three
\* cells, the other cells are converted, the institution is found or
\* created, the ledger entry of (ApNo, financial year) is updated or created
CompleteRow ==
    /\ script = "dcb_complete" /\ pc = "rows" /\ rowIdx < MaxRows
    /\ \E row \in CompleteRows : \E read \in {Read_complete[row]} :
       \E fault \in {"none", "existing_raise", "institution_raise", "institution_empty",
                     "existing_dcb_raise", "write_raise", "write_empty"} :
        LET key == <<read.ap_no, DEFAULT_FINANCIAL_YEAR>>
            known == has_institution(store, read.ap_no)
            exists == has_dcb(store, key)
            outcome == IF read.verdict # "accepted" THEN "skipped"
                       ELSE IF fault \in {"existing_raise", "institution_raise",
                                          "existing_dcb_raise", "write_raise"} THEN "raised"
                       ELSE IF fault = "institution_empty" THEN "no_institution"
                       ELSE IF exists THEN "updated"
                       ELSE IF fault = "write_empty" THEN "failed"
                       ELSE "created"
            sent == <<Call("select", "institutions", <<read.ap_no>>)>>
                    \o (IF known THEN <<>>
                        ELSE <<Call("insert", "institutions", <<read.ap_no>>)>>)
                    \o <<Call("select", "institution_dcb", <<key>>),
                         Call(IF exists THEN "update" ELSE "insert", "institution_dcb",
                              <<key>>)>>
            issued == IF read.verdict # "accepted" THEN 0
                      ELSE IF fault = "existing_raise" THEN 1
                      ELSE IF fault \in {"institution_raise", "institution_empty"} THEN 2
                      ELSE IF fault = "existing_dcb_raise" THEN Len(sent) - 1
                      ELSE Len(sent)
            inserted == ~known /\ issued > 2
            written == issued = Len(sent) /\ fault = "none"
        IN /\ fault # "none" => (read.verdict = "accepted" /\ faults < MaxFaults)
           /\ fault \in {"institution_raise", "institution_empty"} => ~known
           /\ faults' = faults + (IF fault = "none" THEN 0 ELSE 1)
           /\ calls' = SubSeq(sent, 1, issued)
           /\ store' = LET st == IF inserted
                                 THEN upsert_institution(store, read.ap_no,
                                                         read.institution_name)
                                 ELSE store
                           data == [name |-> read.institution_name, remarks |-> None]
                       IN IF ~written THEN st
                          ELSE IF exists THEN update_dcb(st, key, data)
                          ELSE insert_dcb(st, key, data)
           /\ stats' = [stats EXCEPT
                  !.processed = @ + 1,
                  !.skipped = @ + (IF outcome = "skipped" THEN 1 ELSE 0),
                  !.institutions = @ + (IF inserted THEN 1 ELSE 0),
                  !.created = @ + (IF outcome = "created" THEN 1 ELSE 0),
                  !.writes = @ + (IF issued = Len(sent) THEN 1 ELSE 0)
                                 + (IF ~known /\ issued >= 2 THEN 1 ELSE 0)]
           /\ trail' = [verdict |-> read.verdict, cleaned |-> read.cleaned,
                        outcome |-> outcome]
    /\ rowIdx' = rowIdx + 1
    /\ UNCHANGED <<pureVars, lib, script, pc, sheets, sheetIdx, cols, rows, run,
                   results, buffer, batchIdx>>

\* the sheet has no more rows: the counts of the sheet are returned
CompleteClose ==
    /\ script = "dcb_complete" /\ pc = "rows"
    /\ results' = Append(results, SheetResult(sheets[1], "success", "resolved", stats))
    /\ pc' = "done"
    /\ calls' = <<>>
    /\ UNCHANGED <<pureVars, lib, script, sheets, sheetIdx, cols, rows, rowIdx, run,
                   store, faults, stats, buffer, batchIdx, trail>>

CompleteNext == CompleteOpen \/ CompleteRow \/ CompleteClose

-----------------------------------------------------------------------------
(* scripts/import_dcb_from_csv_all_districts.py: import_csv_file *)

\* the header lines of a file
CsvHeaders ==
    {<<<<"a", "p", "_", "g", "a", "z", "e", "t", "t", "e", "_", "n", "o">>, <<"i", "n", "s", "t", "i", "t", "u", "t", "i", "o", "n", "_", "n", "a", "m", "e">>, <<"r", "e", "m", "a", "r", "k", "s">>>>,
     <<<<"i", "n", "s", "t", "i", "t", "u", "t", "i", "o", "n", "_", "n", "a", "m", "e">>, <<"a", "p", "_", "g", "a", "z", "e", "t", "t", "e", "_", "n", "o">>>>,
     <<<<"A", "P", " ", "N", "o">>, <<"N", "a", "m", "e">>, <<"R", "e", "m", "a", "r", "k", "s">>>>}

\* the lines of a file, their fields in the order of the header
CsvRows ==
    {<<<<"A", "1", "2", "3", "4">>, <<"M", "a", "s", "j", "i", "d">>, <<"p", "a", "i", "d">>>>,
     <<<<"A", "1", "2", "3", "4">>, <<"M", "a", "s", "j", "i", "d">>, <<"d", "u", "e">>>>,
     <<<<>>, <<"M", "a", "s", "j", "i", "d">>, <<"p", "a", "i", "d">>>>,
     <<<<"B", "5", "6", "7", "8">>, <<"n", "a", "n">>, <<"p", "a", "i", "d">>>>}

\* row.get(name, ''): csv.DictReader keys a row by the header, a later column
\* of the same name replacing an earlier one, a missing field being None
field(columns, row, name) ==
    IF \E i \in 1..Len(columns) : columns[i] = name
    THEN cell(row, (CHOOSE i \in 1..Len(columns) :
                       columns[i] = name /\ \A j \in (i + 1)..Len(columns) : columns[j] # name)
                   - 1)
    ELSE <<>>

\* process_csv_row: every field is cleaned, then the required ones are checked
process_csv_row ==
    [columns \in CsvHeaders, row \in CsvRows |->
        [ap_gazette_no |-> clean_text_csv(field(columns, row, <<"a", "p", "_", "g", "a", "z", "e", "t", "t", "e", "_", "n", "o">>)),
         institution_name |-> clean_text_csv(field(columns, row, <<"i", "n", "s", "t", "i", "t", "u", "t", "i", "o", "n", "_", "n", "a", "m", "e">>)),
         remarks |-> clean_text_csv(field(columns, row, <<"r", "e", "m", "a", "r", "k", "s">>)),
         verdict |-> classify_csv(field(columns, row, <<"a", "p", "_", "g", "a", "z", "e", "t", "t", "e", "_", "n", "o">>),
                                  field(columns, row, <<"i", "n", "s", "t", "i", "t", "u", "t", "i", "o", "n", "_", "n", "a", "m", "e">>)),
         cleaned |-> {"ap_no", "institution_name", "village", "mandal", "extent",
                      "demand", "receiptno_date", "challanno_date", "collection",
                      "balance", "remarks"}]]

CsvInit ==
    \E file \in FilePool : RunStart("dcb_from_csv", "sheet", <<file>>, EmptyStore)

\* the file is opened and its header line read
CsvOpen ==
    /\ script = "dcb_from_csv" /\ pc = "sheet"
    /\ \E columns \in CsvHeaders \cup {None} :
        IF columns = None
        THEN /\ pc' = "done"
             /\ results' = Append(results, SheetResult(sheets[1], "error", "unread", NoStats))
             /\ UNCHANGED sheets
        ELSE /\ pc' = "rows"
             /\ sheets' = <<sheets[1], columns>>
             /\ UNCHANGED results
    /\ UNCHANGED <<pureVars, lib, script, sheetIdx, cols, rows, rowIdx, run, store, faults,
                   calls, stats, buffer, batchIdx, trail>>

\* one line of the file: processed, then upserted on ap_gazette_no
CsvRow ==
    /\ script = "dcb_from_csv" /\ pc = "rows" /\ rowIdx < MaxRows
    /\ \E row \in CsvRows : \E data \in {process_csv_row[sheets[2], row]} :
       \E fault \in {"none", "raise"} :
        LET key == <<data.ap_gazette_no>>
            accepted == data.verdict = "accepted"
            outcome == IF ~accepted THEN "skipped"
                       ELSE IF fault = "raise" THEN "raised"
                       ELSE "updated"
            record == [name |-> data.institution_name, remarks |-> data.remarks]
        IN /\ fault # "none" => (accepted /\ faults < MaxFaults)
           /\ faults' = faults + (IF fault = "none" THEN 0 ELSE 1)
           /\ calls' = IF accepted THEN <<Call("upsert", "dcb_district", <<key>>)>> ELSE <<>>
           /\ store' = IF outcome # "updated" THEN store
                       ELSE IF has_dcb(store, key) THEN update_dcb(store, key, record)
                       ELSE insert_dcb(store, key, record)
           /\ stats' = [stats EXCEPT
                  !.processed = @ + 1,
                  !.skipped = @ + (IF outcome = "skipped" THEN 1 ELSE 0),
                  !.errors = @ + (IF outcome = "raised" THEN 1 ELSE 0),
                  !.updated = @ + (IF outcome = "updated" THEN 1 ELSE 0),
                  !.inserted = @ + (IF outcome = "updated" THEN 1 ELSE 0),
                  !.writes = @ + (IF accepted THEN 1 ELSE 0)]
           /\ trail' = [verdict |-> data.verdict, cleaned |-> data.cleaned,
                        outcome |-> outcome]
    /\ rowIdx' = rowIdx + 1
    /\ UNCHANGED <<pureVars, lib, script, pc, sheets, sheetIdx, cols, rows, run,
                   results, buffer, batchIdx>>

\* the file has no more lines: the counts are returned
CsvClose ==
    /\ script = "dcb_from_csv" /\ pc = "rows"
    /\ results' = Append(results, SheetResult(sheets[1], "success", "resolved", stats))
    /\ pc' = "done"
    /\ calls' = <<>>
    /\ UNCHANGED <<pureVars, lib, script, sheets, sheetIdx, cols, rows, rowIdx, run,
                   store, faults, stats, buffer, batchIdx, trail>>

CsvNext == CsvOpen \/ CsvRow \/ CsvClose

-----------------------------------------------------------------------------
(* Runs of several scripts side by side *)

\* the scripts that resolve the identity columns of a sheet from its titles
SpecResolve ==
    /\ ExcelInit \/ WaqfInit \/ InstitutionsInit
    /\ [][ExcelNext \/ WaqfNext \/ InstitutionsNext]_vars

\* the scripts that write ledger entries under an idempotency key
SpecLedger ==
    /\ ConsolidatedInit \/ WaqfInit \/ CompleteInit
    /\ [][ConsolidatedNext \/ WaqfNext \/ CompleteNext]_vars

\* the scripts whose row loop classifies a row before it is stored
SpecRows ==
    /\ ExcelInit \/ CompleteInit \/ CsvInit
    /\ [][ExcelNext \/ CompleteNext \/ CsvNext]_vars

\* whether a table of the store holds an entry under the key
Holds(st, table, key) ==
    IF table = "institutions" THEN has_institution(st, key[1]) ELSE has_dcb(st, key)

\* C2: importing the same sheet a second time, the store untouched in
\* between and no call failing, reports no created record and as many updated
\* records as the sheet has accepted records (Inserted being the count the
\* consolidated importer reports for created records), and leaves the store as
\* the first run left it.
C2_SecondRunOnlyUpdates ==
    (script = "consolidated" /\ pc = "done" /\ run = 2 /\ faults = 0) =>
        /\ stats.created = 0
        /\ stats.inserted = 0
        /\ stats.updated = Len(buffer)
        /\ store = results[1].store

\* C3: the ledger never holds two entries under one idempotency key, and when
\* a run ends without a failed call the entry of every key it submitted holds
\* the last record submitted under that key.
C3_OneEntryPerKey ==
    /\ \A i, j \in 1..Len(store.institution_dcb) :
          i < j => store.institution_dcb[i].key # store.institution_dcb[j].key
    /\ (script \in {"consolidated", "waqf"} /\ pc = "done" /\ faults = 0) =>
          \A k \in 1..Len(buffer) :
              (\A l \in (k + 1)..Len(buffer) : buffer[l].key # buffer[k].key) =>
                  \E i \in 1..Len(store.institution_dcb) :
                      /\ store.institution_dcb[i].key = buffer[k].key
                      /\ store.institution_dcb[i].data = buffer[k].data

\* C4: a batch call the store rejects is followed by one call per record of
\* that batch, the records the store takes singly are stored, and the run
\* goes on to the batches after it.
C4_RejectedBatchIsRetriedSingly ==
    (script \in {"consolidated", "waqf"} /\ trail.outcome = "batch_rejected"
     /\ calls # <<>>) =>
        /\ pc # "aborted"
        /\ Len(calls) = 1 + Len(calls[1].keys)
        /\ \A k \in 1..Len(calls[1].keys) :
              /\ calls[k + 1].keys = <<calls[1].keys[k]>>
              /\ Holds(store, calls[1].table, calls[1].keys[k])

\* C5: the records waiting to be submitted hold each identity key once, so no
\* insert or upsert call carries the same key twice.
C5_OneRecordPerKeySubmitted ==
    /\ (script \in {"consolidated", "waqf"}
        /\ pc \in {"batches", "upsert_institutions", "upsert_dcb"}) => ~Repeats(Keys(buffer))
    /\ script \in {"consolidated", "waqf"} =>
          \A k \in 1..Len(calls) :
              calls[k].op \in {"insert", "upsert"} => ~Repeats(calls[k].keys)

C10_RejectedRowStopsAtClassifier ==
    (script \in {"dcb_from_excel", "dcb_complete", "dcb_from_csv"}
     /\ trail.outcome = "skipped") =>
        /\ calls = <<>>
        /\ trail.cleaned \subseteq {"first_col", "ap_no", "institution_name"}

-----------------------------------------------------------------------------
(* Header resolution as a function of the title row: each resolver applied to
   a sheet's titles and to the same titles with the columns permuted *)

MaxCols == 3

Titles == {<<"A", "P", " ", "G", "a", "z", "e", "t", "t", "e", " ", "N", "o">>, <<"G", "a", "z", "e", "t", "t", "e", " ", "N", "a", "m", "e">>, <<"N", "a", "m", "e", " ", "o", "f", " ", "I", "n", "s", "t", "i", "t", "u", "t", "i", "o", "n">>, <<"M", "a", "n", "d", "a", "l">>,
           <<"M", "a", "n", "d", "a", "l", " ", "N", "a", "m", "e">>, <<"C", "-", "A", "r", "r", "e", "a", "r", "s">>}

\* titles that satisfy no rule of any resolver
Plain == <<<<"a">>, <<"b">>, <<"c">>, <<"d">>, <<"e">>, <<"f">>, <<"g">>, <<"h">>, <<"i">>, <<"j">>, <<"k">>, <<"l">>, <<"m">>, <<"n">>, <<"o">>>>

Injective(s) == \A i, j \in DOMAIN s : s[i] = s[j] => i = j

TitleRows ==
    UNION {{s \in [1..n -> Titles] : Injective(s)} : n \in 1..MaxCols}

ColumnOrders(n) == {p \in [1..n -> 1..n] : Injective(p)}

Reversal(n) == [i \in 1..n |-> n + 1 - i]

ResolverInputs ==
    UNION {{[columns |-> s, perm |-> p] : p \in ColumnOrders(Len(s))} : s \in TitleRows}
    \cup
    {[columns |-> SubSeq(Plain, 1, n), perm |-> Reversal(n)] : n \in {4, 5, 14, 15}}

\* the title row with its columns moved: column i of the result is column
\* perm[i] of the sheet
permuted(columns, perm) == [i \in 1..Len(columns) |-> columns[perm[i]]]

\* where column `col` of the sheet is found after the move
translated(col, perm) ==
    IF col = NoCol THEN NoCol ELSE (CHOOSE i \in DOMAIN perm : perm[i] = col + 1) - 1

ResolverInit ==
    /\ fn = "idle"
    /\ arg \in ResolverInputs
    /\ out = <<>>
    /\ lib = "rejects"
    /\ RunIdle

Apply_resolve_excel ==
    /\ fn = "idle"
    /\ fn' = "resolve_excel"
    /\ out' = [before |-> resolve_excel(arg.columns),
               after |-> resolve_excel(permuted(arg.columns, arg.perm))]
    /\ UNCHANGED <<arg, lib, runVars>>

Apply_resolve_institutions ==
    /\ fn = "idle"
    /\ fn' = "resolve_institutions"
    /\ out' = [before |-> resolve_institutions(arg.columns),
               after |-> resolve_institutions(permuted(arg.columns, arg.perm))]
    /\ UNCHANGED <<arg, lib, runVars>>

Apply_resolve_update ==
    /\ fn = "idle"
    /\ fn' = "resolve_update"
    /\ out' = [before |-> resolve_update(arg.columns),
               after |-> resolve_update(permuted(arg.columns, arg.perm))]
    /\ UNCHANGED <<arg, lib, runVars>>

ResolverNext ==
    \/ Apply_resolve_excel
    \/ Apply_resolve_institutions
    \/ Apply_resolve_update

SpecResolver == ResolverInit /\ [][ResolverNext]_vars

\* the header rules as the spec states them: a title satisfies a rule when it
\* contains one of `any` (if given), all of `all` and none of `none`; `prior`
\* are the rules of the same field tried before it, `default` the field's
\* positional default (NoCol: none declared)
Rule(target, any, all, none, prior, default) ==
    [field |-> target, any |-> any, all |-> all, none |-> none,
     prior |-> prior, default |-> default]

ApRule_excel == Rule("ap_no_col", {}, {<<"a", "p">>, <<"g", "a", "z", "e", "t", "t", "e">>}, {<<"s", "l", " ", "n", "o">>, <<"s", "e", "r", "i", "a", "l">>}, {}, 1)
GazetteRule_excel == Rule("ap_no_col", {}, {<<"g", "a", "z", "e", "t", "t", "e">>}, {}, {ApRule_excel}, 1)
NameRule_excel ==
    Rule("name_col", {}, {<<"i", "n", "s", "t", "i", "t", "u", "t", "i", "o", "n">>, <<"n", "a", "m", "e">>}, {<<"m", "a", "n", "d", "a", "l">>, <<"v", "i", "l", "l", "a", "g", "e">>, <<"o", "f", " ", "o", "f", "f", "i", "c", "e", "r">>}, {}, 2)

Rules(resolver) ==
    CASE resolver = "resolve_excel" ->
           {ApRule_excel,
            GazetteRule_excel,
            Rule("ap_no_col", {}, {<<"s", "l">>, <<"n", "o">>}, {}, {ApRule_excel, GazetteRule_excel}, 1),
            NameRule_excel,
            Rule("name_col", {}, {<<"n", "a", "m", "e">>}, {<<"m", "a", "n", "d", "a", "l">>, <<"v", "i", "l", "l", "a", "g", "e">>}, {NameRule_excel}, 2),
            Rule("remarks_col", {}, {<<"r", "e", "m", "a", "r", "k">>}, {}, {}, NoCol)}
      [] resolver = "resolve_institutions" ->
           {Rule("ap_no_col", {<<"a", "p">>, <<"g", "a", "z", "e", "t", "t", "e">>, <<"s", "l", ".", "n", "o">>, <<"s", "l", " ", "n", "o">>, <<"s", "e", "r", "i", "a", "l">>}, {}, {}, {}, 1),
            Rule("name_col", {<<"i", "n", "s", "t", "i", "t", "u", "t", "i", "o", "n">>, <<"n", "a", "m", "e">>, <<"w", "a", "q", "f">>}, {}, {<<"m", "a", "n", "d", "a", "l">>, <<"v", "i", "l", "l", "a", "g", "e">>}, {}, 2),
            Rule("mandal_col", {<<"m", "a", "n", "d", "a", "l">>}, {}, {}, {}, 3),
            Rule("village_col", {<<"v", "i", "l", "l", "a", "g", "e">>}, {}, {}, {}, 4)}
      [] resolver = "resolve_update" ->
           {Rule("ap_no_col", {<<"a", "p">>, <<"g", "a", "z", "e", "t", "t", "e">>, <<"s", "l", ".", "n", "o">>}, {}, {}, {}, 1),
            Rule("c_arrears_col", {<<"c">>, <<"c", "o", "l", "l", "e", "c", "t", "i", "o", "n">>}, {<<"a", "r", "r", "e", "a", "r">>}, {}, {}, 13),
            Rule("c_current_col", {<<"c">>, <<"c", "o", "l", "l", "e", "c", "t", "i", "o", "n">>}, {<<"c", "u", "r", "r", "e", "n", "t">>}, {}, {}, 14)}
      [] OTHER -> {}

Satisfies(title, rule) ==
    LET col_str == strip(lower(title)) IN
    /\ rule.any = {} \/ \E word \in rule.any : in_text(word, col_str)
    /\ \A word \in rule.all : in_text(word, col_str)
    /\ \A word \in rule.none : ~in_text(word, col_str)

Matches(columns, rule) == {i \in 1..Len(columns) : Satisfies(columns[i], rule)}

\* the rule is the one that decides its field: no rule tried before it matches
Decides(columns, rule) == \A p \in rule.prior : Matches(columns, p) = {}

Lowest(S) == CHOOSE i \in S : \A j \in S : i <= j

Resolvers == {"resolve_excel", "resolve_institutions", "resolve_update"}

\* C11: for every field and rule, when several columns satisfy the rule the
\* field is mapped to the satisfying column with the lowest index
\* (import_dcb_from_excel, update_collections_from_excel,
\* import_institutions_from_excel).
C11_LowestMatchingColumnWins ==
    fn \in Resolvers =>
        \A rule \in Rules(fn) :
            (Decides(arg.columns, rule) /\ Matches(arg.columns, rule) # {})
                => out.before[rule.field] = Lowest(Matches(arg.columns, rule)) - 1

\* no rule of the resolver is satisfied by more than one column
Unambiguous(resolver, columns) ==
    \A rule \in Rules(resolver) : Cardinality(Matches(columns, rule)) <= 1

\* no field of the mapping was placed by its positional default: it is
\* unmapped, or a rule of the field is satisfied by some title
ResolvedByTitle(resolver, columns, mapping) ==
    \A rule \in Rules(resolver) :
        \/ mapping[rule.field] = NoCol
        \/ \E other \in Rules(resolver) :
              other.field = rule.field /\ Matches(columns, other) # {}

\* the mapping of the permuted sheet names the same physical columns
SameColumns == \A f \in DOMAIN out.before :
                   out.after[f] = translated(out.before[f], arg.perm)

\* C12 as stated: for every sheet and every permutation of its columns the two
\* mappings are equal up to index translation.
C12_OrderIndependent == fn \in Resolvers => SameColumns

\* C12 (import_dcb_from_excel, import_institutions_from_excel,
\* update_collections_from_excel): for every sheet on which no rule is
\* satisfied by more than one column and no field is placed by its positional
\* default, and for every permutation of its columns, each field is mapped to
\* the same physical column before and after the permutation.
C12_OrderIndependentWhenUnambiguous ==
    (/\ fn \in Resolvers
     /\ Unambiguous(fn, arg.columns)
     /\ ResolvedByTitle(fn, arg.columns, out.before)) => SameColumns

C12_MovedColumnFollowed ==
    /\ fn \in Resolvers
    /\ Unambiguous(fn, arg.columns)
    /\ ResolvedByTitle(fn, arg.columns, out.before)
    /\ \E f \in DOMAIN out.before :
          /\ out.before[f] # NoCol
          /\ out.after[f] # out.before[f]
          /\ out.after[f] = translated(out.before[f], arg.perm)

\* no rule of the field is satisfied by any title
Untitled(resolver, columns, target) ==
    \A rule \in Rules(resolver) : rule.field = target => Matches(columns, rule) = {}

\* C13: when no header rule matches a field with a declared positional default
\* (ApNo 1, InstitutionName 2, Mandal 3, Village 4, CollectionArrears 13,
\* CollectionCurrent 14) the field takes that index, and is left unmapped when
\* the index is not smaller than the sheet's column count
\* (import_institutions_from_excel, update_collections_from_excel,
\* import_dcb_from_excel).
C13_PositionalDefault ==
    fn \in Resolvers =>
        \A rule \in Rules(fn) :
            (rule.default # NoCol /\ Untitled(fn, arg.columns, rule.field))
                => out.before[rule.field] = default_at(arg.columns, rule.default)

-----------------------------------------------------------------------------
(* Numeric cleaning.  A float is carried exactly as <<"Num", m, e>>, the
   number m / 10^e with e >= 0 minimal; nan and the infinities are values of
   their own.  A cell holds None (None or NaN), a text, or a number. *)

Number(m, e) == <<"Num", m, e>>
Zero == Number(0, 0)
NaN == <<"nan">>
Inf == <<"inf">>
NegInf == <<"-inf">>

\* isinstance(value, (int, float)) for a cell that is not NaN
IsNumber(value) == Len(value) = 3 /\ value[1] = "Num"

RECURSIVE Normal(_, _)
Normal(m, e) ==
    IF m = 0 THEN Zero
    ELSE IF e < 0 THEN Normal(m * 10, e + 1)
    ELSE IF e > 0 /\ m % 10 = 0 THEN Normal(m \div 10, e - 1)
    ELSE Number(m, e)

\* the one-character strings the scripts strip as currency marks: the rupee
\* sign, and the three characters its UTF-8 bytes give when read as cp1252
Rupee == "rupee-sign"
Mojibake == <<"a-circumflex", "low-9-quote", "superscript-1">>

\* float(s) of a text: Fail for ValueError
float(s) ==
    LET t == lower(strip(s))
        signed == Len(t) > 0 /\ t[1] \in {"+", "-"}
        sign == IF signed /\ t[1] = "-" THEN -1 ELSE 1
        body == IF signed THEN Tail(t) ELSE t
        halves == split(body, "e")
        point == split(halves[1], ".")
        whole == point[1]
        frac == IF Len(point) = 2 THEN point[2] ELSE <<>>
        power == IF Len(halves) = 2 THEN halves[2] ELSE <<"0">>
        power_signed == Len(power) > 0 /\ power[1] \in {"+", "-"}
        power_digits == IF power_signed THEN Tail(power) ELSE power
        exponent == IF power_signed /\ power[1] = "-"
                    THEN 0 - int(power_digits) ELSE int(power_digits)
    IN IF body = <<"n", "a", "n">> THEN NaN
       ELSE IF body \in {<<"i", "n", "f">>, <<"i", "n", "f", "i", "n", "i", "t", "y">>} THEN (IF sign = 1 THEN Inf ELSE NegInf)
       ELSE IF /\ Len(halves) <= 2
               /\ Len(point) <= 2
               /\ \A i \in 1..Len(whole) : whole[i] \in Digit
               /\ \A i \in 1..Len(frac) : frac[i] \in Digit
               /\ Len(whole) + Len(frac) > 0
               /\ isdigit(power_digits)
            THEN Normal(sign * int(whole \o frac), Len(frac) - exponent)
            ELSE Fail

\* re.sub('[...]', '', s): every character of the class removed
without(s, class) == SelectSeq(s, LAMBDA c : c \notin class)

clean_numeric_excel(value) ==
    IF value = None THEN Zero
    ELSE IF IsNumber(value) THEN value
    ELSE LET num == float(strip(remove_all(remove_all(value, <<",">>), Mojibake)))
         IN IF num = Fail THEN Zero ELSE num

clean_numeric_complete(value) ==
    IF value = None THEN Zero
    ELSE IF IsNumber(value) THEN value
    ELSE IF strip(value) \in {<<"-">>, <<>>, <<"n", "a", "n">>, <<"N", "a", "N">>, <<"N", "o", "n", "e">>, <<"S", "h", "o", "p", "s">>} THEN Zero
    ELSE LET num == float(without(strip(value),
                                  {Mojibake[1], Mojibake[2], Mojibake[3], ",", " "}))
         IN IF num = Fail THEN Zero ELSE num

clean_number_waqf(v) ==
    IF v = None THEN Zero
    ELSE IF IsNumber(v) THEN v
    ELSE IF lower(strip(v)) \in {<<>>, <<"n", "a", "n">>, <<"n", "u", "l", "l">>, <<"n", "o", "n", "e">>, <<"-">>, <<"s", "h", "o", "p", "s">>} THEN Zero
    ELSE LET num == float(without(remove_all(strip(v), <<",">>), {Rupee, " "}))
         IN IF num = Fail THEN Zero ELSE num

clean_numeric_csv(value) ==
    IF value = None THEN None
    ELSE IF IsNumber(value) THEN value
    ELSE IF lower(strip(value)) \in {<<>>, <<"n", "a", "n">>, <<"n", "o", "n", "e">>, <<"n", "u", "l", "l">>, <<"n", "/", "a">>, <<"-">>, <<"n", "i", "l">>}
    THEN None
    ELSE LET num == float(strip(remove_all(remove_all(remove_all(
                        strip(value), <<",">>), <<Rupee>>), <<"$">>)))
         IN IF num = Fail THEN None ELSE num

\* the integer part of a numeric text grouped in thousands: "12345.00" as
\* "12,345.00"
with_commas(text) ==
    LET whole == Len(split(text, ".")[1])
        piece(i) == IF i < whole /\ (whole - i) % 3 = 0 THEN <<text[i], ",">> ELSE <<text[i]>>
        pieces[i \in 0..Len(text)] == IF i = 0 THEN <<>> ELSE pieces[i - 1] \o piece(i)
    IN pieces[Len(text)]

WholeParts == {<<"0">>, <<"5">>, <<"1", "0", "0", "0">>, <<"1", "2", "3", "4", "5">>}
FractionParts == {<<>>, <<".", "0", "0">>, <<".", "5">>}
NumericTexts == {w \o f : w \in WholeParts, f \in FractionParts}

\* a numeric text as a sheet may carry it: bare, grouped, with the rupee sign
Dressed(text) == {text, with_commas(text), <<Rupee>> \o text,
                  <<Rupee>> \o with_commas(text)}

OtherCells == {None, <<>>, <<"-">>, <<"n", "a", "n">>, <<"N", "a", "N">>, <<"n", "o", "n", "e">>, <<"N", "/", "A">>, <<"S", "h", "o", "p", "s">>, <<"a", "b", "c">>, <<"i", "n", "f">>,
               <<"-", "5">>, <<" ", "7", " ">>, <<"1", "e", "+", "3">>, <<"2", ".", "5", "0", "e", "-", "1">>, <<"1", ".", "2", ".", "3">>, Number(5, 0), Number(25, 1), Zero}

NumericInit ==
    /\ fn = "idle"
    /\ arg \in UNION {{[value |-> d, plain |-> t] : d \in Dressed(t)} : t \in NumericTexts}
               \cup {[value |-> c, plain |-> c] : c \in OtherCells}
    /\ out = <<>>
    /\ lib = "rejects"
    /\ RunIdle

Apply_clean_numeric_excel ==
    /\ fn = "idle"
    /\ fn' = "clean_numeric_excel"
    /\ out' = [value |-> clean_numeric_excel(arg.value),
               plain |-> clean_numeric_excel(arg.plain)]
    /\ UNCHANGED <<arg, lib, runVars>>

Apply_clean_numeric_complete ==
    /\ fn = "idle"
    /\ fn' = "clean_numeric_complete"
    /\ out' = [value |-> clean_numeric_complete(arg.value),
               plain |-> clean_numeric_complete(arg.plain)]
    /\ UNCHANGED <<arg, lib, runVars>>

Apply_clean_number_waqf ==
    /\ fn = "idle"
    /\ fn' = "clean_number_waqf"
    /\ out' = [value |-> clean_number_waqf(arg.value),
               plain |-> clean_number_waqf(arg.plain)]
    /\ UNCHANGED <<arg, lib, runVars>>

Apply_clean_numeric_csv ==
    /\ fn = "idle"
    /\ fn' = "clean_numeric_csv"
    /\ out' = [value |-> clean_numeric_csv(arg.value),
               plain |-> clean_numeric_csv(arg.plain)]
    /\ UNCHANGED <<arg, lib, runVars>>

NumericNext ==
    \/ Apply_clean_numeric_excel
    \/ Apply_clean_numeric_complete
    \/ Apply_clean_number_waqf
    \/ Apply_clean_numeric_csv

SpecNumeric == NumericInit /\ [][NumericNext]_vars

\* C14: numeric cleaning is insensitive to thousands separators and the rupee
\* sign: a numeric text with "," and the rupee sign inserted cleans to the
\* value of the bare text, and the rupee-signed "12,345.00" cleans to 12345.0
\* (clean_numeric of import_dcb_from_excel and import_dcb_complete,
\* clean_number of import_waqf_consolidated_excel).
C14_SeparatorsAndGlyphsIgnored ==
    fn \in {"clean_numeric_excel", "clean_numeric_complete", "clean_number_waqf"} =>
        /\ arg.plain \in NumericTexts => out.value = out.plain
        /\ arg.value = <<Rupee>> \o <<"1", "2", ",", "3", "4", "5", ".", "0", "0">> => out.value = Number(12345, 0)

\* `raw if raw is not None else 0.0`
or_zero(raw) == IF raw = None THEN Zero ELSE raw

\* a cell with nothing to parse: absent, a sentinel text, or text without a digit
Unparseable(value) ==
    \/ value = None
    \/ /\ ~IsNumber(value)
       /\ \/ lower(strip(value)) \in {<<>>, <<"-">>, <<"n", "a", "n">>, <<"n", "o", "n", "e">>, <<"n", "/", "a">>}
          \/ \A i \in 1..Len(value) : value[i] \notin Digit

\* C15: numeric cleaning is total: for every cell value the value of a
\* financial field is a finite number, never None, and it is 0 for every
\* absent, sentinel or unparseable cell (clean_numeric of import_dcb_from_excel
\* and of import_dcb_from_csv_all_districts with its `is not None else 0.0`).
C15_NumericCleaningTotal ==
    fn \in {"clean_numeric_excel", "clean_numeric_csv"} =>
        /\ IsNumber(or_zero(out.value))
        /\ Unparseable(arg.value) => or_zero(out.value) = Zero

-----------------------------------------------------------------------------
(* Text cleaning as a function of the cell *)

SentinelTexts == {<<>>, <<"n", "a", "n">>, <<"n", "o", "n", "e">>, <<"n", "u", "l", "l">>, <<"-">>, <<"n", "/", "a">>, <<"n", "a">>}

TextCells ==
    {None, <<"M", "a", "s", "j", "i", "d">>, <<" ", " ", "M", "a", "s", "j", "i", "d", " ">>, <<"S", "r", "i", " ", " ", "T", "e", "m", "p", "l", "e">>, <<"N", "a", "n", "a", "k">>, <<"b", "a", "n", "a", "n", "a">>}
    \cup SentinelTexts
    \cup {<<"N", "A", "N">>, <<"N", "o", "n", "e">>, <<"N", "U", "L", "L">>, <<"N", "u", "l", "l">>, <<"N", "/", "A">>, <<"N", "A">>, <<"N", "a", "N">>, <<"N", "a">>}
    \cup {<<" ">> \o s \o <<" ">> : s \in SentinelTexts}
    \cup {<<" ">> \o s : s \in {<<"N", "A", "N">>, <<"N", "o", "n", "e">>, <<"N", "U", "L", "L">>, <<"N", "/", "A">>, <<"N", "A">>}}

TextInit ==
    /\ fn = "idle"
    /\ arg \in TextCells
    /\ out = <<>>
    /\ lib = "rejects"
    /\ RunIdle

Apply_clean_text_excel ==
    /\ fn = "idle"
    /\ fn' = "clean_text_excel"
    /\ out' = clean_text_excel(arg)
    /\ UNCHANGED <<arg, lib, runVars>>

Apply_clean_text_waqf ==
    /\ fn = "idle"
    /\ fn' = "clean_text_waqf"
    /\ out' = clean_text_waqf(arg)
    /\ UNCHANGED <<arg, lib, runVars>>

Apply_clean_text_consolidated ==
    /\ fn = "idle"
    /\ fn' = "clean_text_consolidated"
    /\ out' = clean_text_consolidated(arg)
    /\ UNCHANGED <<arg, lib, runVars>>

Apply_clean_text_csv ==
    /\ fn = "idle"
    /\ fn' = "clean_text_csv"
    /\ out' = clean_text_csv(arg)
    /\ UNCHANGED <<arg, lib, runVars>>

TextNext ==
    \/ Apply_clean_text_excel
    \/ Apply_clean_text_waqf
    \/ Apply_clean_text_consolidated
    \/ Apply_clean_text_csv

SpecText == TextInit /\ [][TextNext]_vars

\* C16: text cleaning returns None for every sentinel value in any letter case
\* and with surrounding whitespace ("", "nan", "none", "null", "-", "n/a",
\* "na"), and the trimmed text for every other value (clean_text of
\* import_dcb_from_excel, import_waqf_consolidated_excel,
\* import_consolidated_excel).
C16_SentinelsBecomeNone ==
    fn \in {"clean_text_excel", "clean_text_waqf", "clean_text_consolidated"} =>
        out = IF arg = None \/ lower(strip(arg)) \in SentinelTexts
              THEN None ELSE strip(arg)

-----------------------------------------------------------------------------
(* scripts/import_dcb_complete.py: parse_date; date parsing as a function *)

\* re.sub(r',\s*', '-', s): a comma and the spaces after it become one dash
dash_commas(s) ==
    LET absorbed(i) == /\ IsSpace(s[i])
                       /\ \E k \in 1..(i - 1) :
                             s[k] = "," /\ \A j \in (k + 1)..i : IsSpace(s[j])
        kept == {i \in 1..Len(s) : ~absorbed(i)}
        nth(n) == CHOOSE i \in kept : Cardinality({j \in kept : j < i}) = n - 1
    IN [n \in 1..Cardinality(kept) |-> IF s[nth(n)] = "," THEN "-" ELSE s[nth(n)]]

\* re.sub(r'\s+', '-', s)
dash_spaces(s) ==
    LET t == collapse_ws(s) IN [i \in 1..Len(t) |-> IF IsSpace(t[i]) THEN "-" ELSE t[i]]

\* re.sub(r'\D', '', s)
only_digits(s) == SelectSeq(s, LAMBDA c : c \in Digit)

century(y) == IF Len(y) = 2 THEN <<"2", "0">> \o y ELSE y

parse_date_complete(date_str, L) ==
    IF date_str = None \/ Len(date_str) = 0 THEN None
    ELSE IF strip(date_str) \in {<<"-">>, <<>>, <<"n", "a", "n">>, <<"N", "a", "N">>} THEN None
    ELSE LET s == dash_spaces(dash_commas(strip(date_str)))
             parts == split(s, "/")
             date_parts == split(parts[Len(parts)], "-")
             dashed == split(s, "-")
             d == only_digits(strip(dashed[1]))
             m == only_digits(strip(dashed[2]))
             y == century(only_digits(strip(dashed[3])))
         IN IF /\ contains(s, "/") /\ contains(s, "-") /\ Len(parts) >= 3
               /\ Len(date_parts) = 3
               /\ Len(century(date_parts[3])) = 4 /\ isdigit(century(date_parts[3]))
            THEN century(date_parts[3]) \o <<"-">> \o zfill(date_parts[2], 2)
                    \o <<"-">> \o zfill(date_parts[1], 2)
            ELSE IF /\ Len(dashed) = 3
                    /\ d # <<>> /\ m # <<>> /\ only_digits(strip(dashed[3])) # <<>>
                    /\ Len(y) = 4 /\ int(y) >= 2000 /\ int(y) <= 2100
                    /\ int(m) >= 1 /\ int(m) <= 12 /\ int(d) >= 1 /\ int(d) <= 31
            THEN y \o <<"-">> \o zfill(m, 2) \o <<"-">> \o zfill(d, 2)
            ELSE to_datetime_auto(s, L)

DateTexts ==
    {None, <<>>, <<"-">>, <<"n", "a", "n">>, <<"a", "b", "c">>, <<"1", "2", "3", "4", "5">>,
     <<"0", "5", "-", "0", "6", "-", "2", "0", "2", "5">>, <<"5", "-", "6", "-", "2", "5">>, <<"2", "0", "2", "5", "-", "0", "6", "-", "0", "5">>, <<"3", "1", "-", "0", "2", "-", "2", "0", "2", "5">>, <<"2", "9", "-", "0", "2", "-", "2", "0", "2", "4">>, <<"0", "5", "-", "0", "6", "-", "1", "9", "9", "9">>,
     <<"0", "5", "-", "0", "6", "-", "2", "1", "5", "0">>, <<"0", "5", "-", "1", "3", "-", "2", "0", "2", "5">>, <<"1", "3", "-", "0", "5", "-", "2", "0", "2", "5">>, <<"0", "0", "-", "0", "6", "-", "2", "0", "2", "5">>, <<"0", "5", "/", "0", "6", "/", "2", "0", "2", "5">>,
     <<"0", "5", "-", "J", "u", "n", "-", "2", "0", "2", "5">>, <<"0", "5", " ", "0", "6", " ", "2", "0", "2", "5">>, <<"0", "5", ",", " ", "0", "6", ",", " ", "2", "0", "2", "5">>, <<" ", "0", "5", "-", "0", "6", "-", "2", "0", "2", "5", " ">>,
     <<"2", "6", "1", "4", "/", "5", "3", "/", "0", "5", "-", "0", "6", "-", "2", "0", "2", "5">>, <<"2", "6", "1", "4", "/", "5", "3", "/", "5", "-", "6", "-", "2", "5">>, <<"2", "6", "1", "4", "/", "5", "3", "/", "4", "5", "-", "1", "4", "-", "2", "0", "2", "5">>, <<"5", "3", "/", "0", "5", "-", "0", "6", "-", "2", "0", "2", "5">>}

DateInit ==
    /\ fn = "idle"
    /\ arg \in DateTexts
    /\ out = <<>>
    /\ lib \in LibChoices
    /\ RunIdle

\* the function applied to a text, and applied again to what it returned
twice(first, second) == [first |-> first, second |-> IF first = None THEN None ELSE second]

Apply_parse_date_excel ==
    /\ fn = "idle"
    /\ fn' = "parse_date_excel"
    /\ \E first \in {parse_date_excel(arg, lib)} :
          out' = twice(first, parse_date_excel(first, lib))
    /\ UNCHANGED <<arg, lib, runVars>>

Apply_parse_date_data ==
    /\ fn = "idle"
    /\ fn' = "parse_date_data"
    /\ \E first \in {parse_date_data(arg, lib)} :
          out' = twice(first, parse_date_data(first, lib))
    /\ UNCHANGED <<arg, lib, runVars>>

Apply_parse_date_complete ==
    /\ fn = "idle"
    /\ fn' = "parse_date_complete"
    /\ \E first \in {parse_date_complete(arg, lib)} :
          out' = twice(first, parse_date_complete(first, lib))
    /\ UNCHANGED <<arg, lib, runVars>>

DateNext ==
    \/ Apply_parse_date_excel
    \/ Apply_parse_date_data
    \/ Apply_parse_date_complete

SpecDate == DateInit /\ [][DateNext]_vars

DateParsers == {"parse_date_excel", "parse_date_data", "parse_date_complete"}

\* the function returned a date text of its own making, not one only the
\* installed library determines
Returned == fn \in DateParsers /\ out.first \notin {None, SomeDate}

\* C17: date parsing is idempotent on its output: whenever parse_date(s) is
\* not None, parse_date applied to the text it returned gives that text again
\* (import_dcb_data, import_dcb_complete, import_dcb_from_excel).
C17_ParseDateIdempotent == Returned => out.second = out.first

\* a YYYY-MM-DD text naming a calendar day of a year in 2000..2100
InRange(text) ==
    LET p == split(text, "-") IN
    /\ Len(p) = 3
    /\ isdigit(p[1]) /\ isdigit(p[2]) /\ isdigit(p[3])
    /\ Len(p[1]) = 4 /\ Len(p[2]) = 2 /\ Len(p[3]) = 2
    /\ int(p[1]) >= 2000 /\ int(p[1]) <= 2100
    /\ int(p[2]) >= 1 /\ int(p[2]) <= 12
    /\ int(p[3]) >= 1 /\ int(p[3]) <= DaysInMonth(int(p[1]), int(p[2]))

\* the two digits of the year of a day-first text that ends in -YY, <<>>
\* otherwise
ShortYear(text) ==
    LET p == split(strip(text), "-") IN
    IF Len(p) = 3 /\ Len(p[1]) <= 2 /\ Len(p[3]) = 2 /\ isdigit(p[3]) THEN p[3] ELSE <<>>

\* C18: date parsing returns None or a date whose year is in [2000, 2100],
\* whose month is in 1..12 and whose day is valid for the month, on every
\* parsing path; a 2-digit year YY is returned as 20YY (import_dcb_complete,
\* import_dcb_data, import_dcb_from_excel).
C18_DatesInRange ==
    Returned =>
        /\ InRange(out.first)
        /\ (arg # None /\ ShortYear(arg) # <<>>) => SubSeq(out.first, 1, 4) = <<"2", "0">> \o ShortYear(arg)

-----------------------------------------------------------------------------
(* Record assembly: the extent and financial fields of a record, from the
   cells of its row *)

clean_numeric_consolidated(value) ==
    IF value = None THEN None
    ELSE IF IsNumber(value) THEN value
    ELSE IF value = <<"N", "o", "n", "e">> \/ strip(value) = <<>> THEN None
    ELSE LET cleaned == strip(remove_all(value, <<",">>))
             num == float(cleaned)
         IN IF cleaned = <<>> \/ lower(cleaned) = <<"n", "u", "l", "l">> \/ num = Fail THEN None ELSE num

ExtentFields == {"extent_dry", "extent_wet"}

\* import_dcb_from_excel: safe_get(col, 0.0, True) of each field
assemble_excel(src) == [f \in DOMAIN src |-> clean_numeric_excel(src[f])]

\* `ext_dry if ext_dry > 0 else None`
positive_or_none(x) == IF x = Inf \/ (IsNumber(x) /\ x[2] > 0) THEN x ELSE None

\* import_dcb_complete: the extents are kept when positive
assemble_complete(src) ==
    [f \in DOMAIN src |->
        IF f \in ExtentFields THEN positive_or_none(clean_numeric_complete(src[f]))
        ELSE clean_numeric_complete(src[f])]

\* import_consolidated_excel: a None extent is left out of the record, a
\* None amount becomes 0
assemble_consolidated(src) ==
    [f \in DOMAIN src |->
        IF f \in ExtentFields THEN clean_numeric_consolidated(src[f])
        ELSE or_zero(clean_numeric_consolidated(src[f]))]

AmountCells == {None, <<>>, <<"0">>, <<"0", ".", "0", "0">>, <<"2">>, <<"5", "0", "0", "0">>, <<"1", ",", "0", "0", "0">>, <<"-">>, Zero, Number(25, 1)}

Amounts(dry, wet, d_arrears, d_current, c_arrears, c_current) ==
    [extent_dry |-> dry, extent_wet |-> wet,
     demand_arrears |-> d_arrears, demand_current |-> d_current,
     collection_arrears |-> c_arrears, collection_current |-> c_current]

\* the cells of a row: the first extent and the first amount of each kind
\* vary over the pool, the second ones over the two outcomes of the policy
AmountRows ==
    {Amounts(dry, wet, d, <<"3", "0", "0", "0">>, c, None) :
        dry \in AmountCells, wet \in {<<"0">>, <<"2">>}, d \in AmountCells, c \in {None, <<"2", "0", "0", "0">>}}

\* import_dcb_from_excel: the columns of the six amounts
resolve_amounts_excel(columns) ==
    [extent_dry |->
        or_else(find_column_index(columns, {<<"e", "x", "t", "e", "n", "t">>, <<"d", "r", "y">>}, {<<"t", "o", "t", "a", "l">>, <<"w", "e", "t">>}),
                find_column_index(columns, {<<"d", "r", "y">>}, {<<"t", "o", "t", "a", "l">>})),
     extent_wet |->
        or_else(find_column_index(columns, {<<"e", "x", "t", "e", "n", "t">>, <<"w", "e", "t">>}, {<<"t", "o", "t", "a", "l">>, <<"d", "r", "y">>}),
                find_column_index(columns, {<<"w", "e", "t">>}, {<<"t", "o", "t", "a", "l">>})),
     demand_arrears |->
        or_else(find_column_index(columns, {<<"d", "e", "m", "a", "n", "d">>, <<"a", "r", "r", "e", "a", "r">>}, {<<"t", "o", "t", "a", "l">>, <<"c", "u", "r", "r", "e", "n", "t">>}),
                find_column_index(columns, {<<"a", "r", "r", "e", "a", "r">>},
                                  {<<"t", "o", "t", "a", "l">>, <<"c", "u", "r", "r", "e", "n", "t">>, <<"c", "o", "l", "l", "e", "c", "t", "i", "o", "n">>, <<"b", "a", "l", "a", "n", "c", "e">>})),
     demand_current |->
        or_else(find_column_index(columns, {<<"d", "e", "m", "a", "n", "d">>, <<"c", "u", "r", "r", "e", "n", "t">>}, {<<"t", "o", "t", "a", "l">>, <<"a", "r", "r", "e", "a", "r">>}),
                find_column_index(columns, {<<"c", "u", "r", "r", "e", "n", "t">>},
                                  {<<"t", "o", "t", "a", "l">>, <<"a", "r", "r", "e", "a", "r">>, <<"c", "o", "l", "l", "e", "c", "t", "i", "o", "n">>, <<"b", "a", "l", "a", "n", "c", "e">>})),
     collection_arrears |->
        or_else(find_column_index(columns, {<<"c", "o", "l", "l", "e", "c", "t", "i", "o", "n">>, <<"a", "r", "r", "e", "a", "r">>}, {<<"t", "o", "t", "a", "l">>, <<"c", "u", "r", "r", "e", "n", "t">>}),
                find_column_index(columns, {<<"a", "r", "r", "e", "a", "r">>},
                                  {<<"t", "o", "t", "a", "l">>, <<"c", "u", "r", "r", "e", "n", "t">>, <<"d", "e", "m", "a", "n", "d">>, <<"b", "a", "l", "a", "n", "c", "e">>})),
     collection_current |->
        or_else(find_column_index(columns, {<<"c", "o", "l", "l", "e", "c", "t", "i", "o", "n">>, <<"c", "u", "r", "r", "e", "n", "t">>}, {<<"t", "o", "t", "a", "l">>, <<"a", "r", "r", "e", "a", "r">>}),
                find_column_index(columns, {<<"c", "u", "r", "r", "e", "n", "t">>},
                                  {<<"t", "o", "t", "a", "l">>, <<"a", "r", "r", "e", "a", "r">>, <<"d", "e", "m", "a", "n", "d">>, <<"b", "a", "l", "a", "n", "c", "e">>}))]

\* the records import_dcb_from_excel prepares from the rows below the header
\* rows, the store answering every call; `known`: the institution of every
\* ApNo is in the store
records_excel(columns, data, known) ==
    LET mapping == resolve_excel(columns)
        at == resolve_amounts_excel(columns)
        accepted(row) ==
            /\ classify_excel(cell(row, mapping.ap_no_col), cell(row, mapping.name_col))
                  = "accepted"
            /\ known
        kept == SelectSeq(data, accepted)
    IN IF critical_missing(mapping.ap_no_col, mapping.name_col) THEN <<>>
       ELSE [i \in 1..Len(kept) |->
                assemble_excel([f \in DOMAIN at |-> cell(kept[i], at[f])])]

\* the records import_dcb_complete prepares from the rows below the three
\* skipped ones, the store answering every call
records_complete(data) ==
    LET accepted(row) ==
            classify_complete(cell(row, 0), cell(row, 1), cell(row, 2)) = "accepted"
        kept == SelectSeq(data, accepted)
    IN [i \in 1..Len(kept) |->
           assemble_complete(Amounts(cell(kept[i], 5), cell(kept[i], 6), cell(kept[i], 8),
                                     cell(kept[i], 9), cell(kept[i], 13), cell(kept[i], 14)))]

\* the header row of a district sheet, each title joined with the title above it
SheetColumns ==
    <<<<"S", "l", " ", "N", "o">>, <<"A", "P", " ", "G", "a", "z", "e", "t", "t", "e", " ", "N", "o">>, <<"N", "a", "m", "e", " ", "o", "f", " ", "I", "n", "s", "t", "i", "t", "u", "t", "i", "o", "n">>, <<"M", "a", "n", "d", "a", "l">>, <<"V", "i", "l", "l", "a", "g", "e">>,
      <<"E", "x", "t", "e", "n", "t", " ", "D", "r", "y">>, <<"E", "x", "t", "e", "n", "t", " ", "W", "e", "t">>, <<"E", "x", "t", "e", "n", "t", " ", "T", "o", "t", "a", "l">>, <<"I", "n", "s", "p", "e", "c", "t", "o", "r">>,
      <<"D", "e", "m", "a", "n", "d", " ", "A", "r", "r", "e", "a", "r", "s">>, <<"D", "e", "m", "a", "n", "d", " ", "C", "u", "r", "r", "e", "n", "t">>, <<"D", "e", "m", "a", "n", "d", " ", "T", "o", "t", "a", "l">>, <<"R", "e", "c", "e", "i", "p", "t">>,
      <<"C", "o", "l", "l", "e", "c", "t", "i", "o", "n", " ", "A", "r", "r", "e", "a", "r", "s">>, <<"C", "o", "l", "l", "e", "c", "t", "i", "o", "n", " ", "C", "u", "r", "r", "e", "n", "t">>>>

MarkerRow == [i \in 1..15 |-> digits(i)]

DataRow(first) ==
    <<first, <<"A", "B", "C", "/", "9", "9">>, <<"S", "r", "i", " ", "T", "e", "m", "p", "l", "e">>, <<"F", "o", "o">>, <<"B", "a", "r">>, <<"2">>, <<"0">>, <<>>, <<>>,
      <<"5", "0", "0", "0">>, <<"3", "0", "0", "0">>, <<>>, <<>>, <<"2", "0", "0", "0">>, <<"1", "0", "0", "0">>>>

\* what the sheet reader hands to the row loop: import_dcb_from_excel takes
\* the title row and the header row as column names, import_dcb_complete
\* skips three rows, so the marker row is the first row of both
Sheets ==
    {[kind |-> "sheet", columns |-> SheetColumns, rows |-> <<MarkerRow, DataRow(first)>>,
      known |-> known] : first \in {<<"1">>, <<"2", "1">>}, known \in BOOLEAN}

AssembleInit ==
    /\ fn = "idle"
    /\ arg \in Sheets \cup {[kind |-> "row", src |-> src] : src \in AmountRows}
    /\ out = <<>>
    /\ lib = "rejects"
    /\ RunIdle

Apply_assemble_excel ==
    /\ fn = "idle"
    /\ arg.kind = "row"
    /\ fn' = "assemble_excel"
    /\ out' = assemble_excel(arg.src)
    /\ UNCHANGED <<arg, lib, runVars>>

Apply_assemble_complete ==
    /\ fn = "idle"
    /\ arg.kind = "row"
    /\ fn' = "assemble_complete"
    /\ out' = assemble_complete(arg.src)
    /\ UNCHANGED <<arg, lib, runVars>>

Apply_assemble_consolidated ==
    /\ fn = "idle"
    /\ arg.kind = "row"
    /\ fn' = "assemble_consolidated"
    /\ out' = assemble_consolidated(arg.src)
    /\ UNCHANGED <<arg, lib, runVars>>

Apply_records_excel ==
    /\ fn = "idle"
    /\ arg.kind = "sheet"
    /\ fn' = "records_excel"
    /\ out' = records_excel(arg.columns, arg.rows, arg.known)
    /\ UNCHANGED <<arg, lib, runVars>>

Apply_records_complete ==
    /\ fn = "idle"
    /\ arg.kind = "sheet"
    /\ fn' = "records_complete"
    /\ out' = records_complete(arg.rows)
    /\ UNCHANGED <<arg, lib, runVars>>

AssembleNext ==
    \/ Apply_assemble_excel
    \/ Apply_assemble_complete
    \/ Apply_assemble_consolidated
    \/ Apply_records_excel
    \/ Apply_records_complete

SpecAssemble == AssembleInit /\ [][AssembleNext]_vars

\* the number a source cell holds: None for an absent cell (no value, blank,
\* "-"), the number itself, or the number a text spells
SourceValue(value) ==
    IF value = None THEN None
    ELSE IF IsNumber(value) THEN value
    ELSE IF strip(value) \in {<<>>, <<"-">>} THEN None
    ELSE float(remove_all(strip(value), <<",">>))

\* C19: in every assembled record the four financial fields are never None
\* and are 0 for an absent source value, and extent_dry and extent_wet are
\* None exactly when the source value is zero or absent and carry the number
\* otherwise (import_dcb_complete, import_dcb_from_excel,
\* import_consolidated_excel).
C19_ZeroVersusNull ==
    fn \in {"assemble_excel", "assemble_complete", "assemble_consolidated"} =>
        /\ \A f \in {"demand_arrears", "demand_current",
                     "collection_arrears", "collection_current"} :
              /\ out[f] # None
              /\ SourceValue(arg.src[f]) = None => out[f] = Zero
        /\ \A f \in {"extent_dry", "extent_wet"} :
              out[f] = IF SourceValue(arg.src[f]) \in {None, Zero}
                       THEN None ELSE SourceValue(arg.src[f])

\* C20: the sheet with a title row, a header row, the column-index marker row
\* and the single data row ("1", "ABC/99", "Sri Temple", "Foo", "Bar", "2",
\* "0", "", "", "5000", "3000", "", "", "2000", "1000") produces exactly one
\* record, with demand_arrears 5000, demand_current 3000, collection_arrears
\* 2000, collection_current 1000, extent_dry 2.0 and extent_wet None; the
\* marker row is skipped (import_dcb_complete, import_dcb_from_excel).
C20_OneRecordFromSheet ==
    (/\ fn \in {"records_excel", "records_complete"}
     /\ arg.rows = <<MarkerRow, DataRow(<<"1">>)>>
     /\ arg.known) =>
        out = <<[extent_dry |-> Number(2, 0), extent_wet |-> None,
                 demand_arrears |-> Number(5000, 0), demand_current |-> Number(3000, 0),
                 collection_arrears |-> Number(2000, 0),
                 collection_current |-> Number(1000, 0)]>>

-----------------------------------------------------------------------------
(* Derived totals.  scripts/import_dcb_from_csv_all_districts.py is the one
   script that puts totals in a record; the others send the components only
   and leave the totals to the generated columns of the table. *)

\* a + b and a - b of two finite floats that hold whole or decimal amounts
plus(a, b) ==
    LET e == IF a[3] > b[3] THEN a[3] ELSE b[3]
        scaled(x) == x[2] * (10 ^ (e - x[3]))
    IN Normal(scaled(a) + scaled(b), e)

minus(a, b) == plus(a, Number(0 - b[2], b[3]))

calculate_demand_total(demand_arrears, demand_current) ==
    LET total == plus(or_zero(demand_arrears), or_zero(demand_current))
    IN IF total[2] > 0 THEN total ELSE Zero

calculate_collection_total(collection_arrears, collection_current) ==
    LET total == plus(or_zero(collection_arrears), or_zero(collection_current))
    IN IF total[2] > 0 THEN total ELSE Zero

\* `x if x is not None else calculated`
given(raw, f, calculated) == IF raw[f] = None THEN calculated ELSE raw[f]

\* the four components, `clean_numeric(...) or 0.0`
components_csv(raw) ==
    [f \in {"demand_arrears", "demand_current", "collection_arrears",
            "collection_current"} |-> or_zero(raw[f])]

balances_csv(raw, c) ==
    [balance_arrears |->
        given(raw, "balance_arrears", minus(c.demand_arrears, c.collection_arrears)),
     balance_current |->
        given(raw, "balance_current", minus(c.demand_current, c.collection_current))]

derived_csv(raw, c, b) ==
    [demand_total |->
        given(raw, "demand_total",
              calculate_demand_total(c.demand_arrears, c.demand_current)),
     collection_total |->
        given(raw, "collection_total",
              calculate_collection_total(c.collection_arrears, c.collection_current)),
     balance_total |->
        given(raw, "balance_total", plus(b.balance_arrears, b.balance_current))]

with_derived(raw, c, b) == c @@ b @@ derived_csv(raw, c, b)

with_balances(raw, c) == with_derived(raw, c, balances_csv(raw, c))

with_components(raw) == with_balances(raw, components_csv(raw))

\* the amounts process_csv_row puts in the record: a total the line carries
\* is taken as it is, a total it lacks is calculated
totals_csv(row) == with_components([f \in DOMAIN row |-> clean_numeric_csv(row[f])])

\* the amounts import_dcb_from_excel.py puts in dcb_data: the components only
components_excel(row) ==
    [f \in {"demand_arrears", "demand_current", "collection_arrears",
            "collection_current"} |-> clean_numeric_excel(row[f])]

\* the amount cells of a line: blank, set, negative; totals absent, agreeing
\* with the components of the line, or not
TotalsRows ==
    [demand_arrears : {<<>>, <<"1", "0", "0">>, <<"-", "5">>},
     demand_current : {<<>>, <<"5", "0">>},
     demand_total : {<<>>, <<"1", "5", "0">>, <<"9", "9", "9">>},
     collection_arrears : {<<>>, <<"3", "0">>},
     collection_current : {<<>>, <<"2", "0">>},
     collection_total : {<<>>, <<"5", "0">>},
     balance_arrears : {<<>>, <<"7", "0">>},
     balance_current : {<<>>},
     balance_total : {<<>>, <<"1", "0", "0">>}]

TotalsInit ==
    /\ fn = "idle"
    /\ arg \in TotalsRows
    /\ out = <<>>
    /\ lib = "rejects"
    /\ RunIdle

Apply_totals_csv ==
    /\ fn = "idle"
    /\ fn' = "process_csv_row"
    /\ out' = totals_csv(arg)
    /\ UNCHANGED <<arg, lib, runVars>>

Apply_components_excel ==
    /\ fn = "idle"
    /\ fn' = "process_excel_file"
    /\ out' = components_excel(arg)
    /\ UNCHANGED <<arg, lib, runVars>>

TotalsNext == Apply_totals_csv \/ Apply_components_excel

SpecTotals == TotalsInit /\ [][TotalsNext]_vars

TotalFields ==
    {"demand_total", "collection_total", "balance_arrears", "balance_current",
     "balance_total"}

\* C21: a record carries no derived total at all, or carries all of them
\* and each equals what its components give: demand_total = demand_arrears
\* + demand_current, collection_total = collection_arrears +
\* collection_current, balance_arrears = demand_arrears - collection_arrears,
\* balance_current = demand_current - collection_current, balance_total =
\* balance_arrears + balance_current.
C21_TotalsAgreeWithComponents ==
    fn \in {"process_csv_row", "process_excel_file"} =>
        \/ TotalFields \cap DOMAIN out = {}
        \/ /\ TotalFields \subseteq DOMAIN out
           /\ out.demand_total = plus(out.demand_arrears, out.demand_current)
           /\ out.collection_total = plus(out.collection_arrears, out.collection_current)
           /\ out.balance_arrears = minus(out.demand_arrears, out.collection_arrears)
           /\ out.balance_current = minus(out.demand_current, out.collection_current)
           /\ out.balance_total = plus(out.balance_arrears, out.balance_current)

-----------------------------------------------------------------------------
(* Accounting of the import runs *)

\* C22: a record counts as failed only when its own insert fails: a record
\* of a rejected batch that is then stored singly counts as inserted and not
\* as failed, so when the run ends inserted + failed is the number of
\* prepared records.
C22_FailedOnlyWhenSingleInsertFails ==
    (script = "consolidated" /\ pc = "done") =>
        stats.inserted + stats.failed = Len(buffer)

-----------------------------------------------------------------------------
(* scripts/import_dcb_data.py: process_sheet.  The script keeps three
   counters: institutions created, ledger entries created, errors. *)

ApBlanks_data == {<<"n", "a", "n">>, <<"N", "a", "N">>, <<"2">>, <<"-">>, <<>>}

NameBlanks_data == {<<"n", "a", "n">>, <<"N", "a", "N">>, <<"3">>, <<>>}

classify_data(ap_cell, name_cell) ==
    IF str_strip(ap_cell) = None \/ str_strip(ap_cell) \in ApBlanks_data THEN "missing_ap"
    ELSE IF str_strip(name_cell) = None \/ str_strip(name_cell) \in NameBlanks_data
         THEN "missing_name"
    ELSE "accepted"

DcbDataInit ==
    \E sheet \in CompleteSheets, stored \in StoredInstitutions :
        RunStart("dcb_data", "sheet", <<sheet>>,
                 [EmptyStore EXCEPT !.institutions = stored])

\* process_sheet up to the row loop: read_sheet_data, then the district of
\* the sheet is looked up; a sheet without district ends as skipped
DcbDataOpen ==
    /\ script = "dcb_data" /\ pc = "sheet"
    /\ \E read \in {"ok", "raise"}, district \in {"ok", "none", "raise"} :
        LET named == district_name_complete(sheets[1]) # None
            looked_up == read = "ok" /\ named
            district_id == IF named THEN get_id(district, sheets[1]) ELSE None
            status == IF read = "raise" \/ (looked_up /\ district = "raise") THEN "error"
                      ELSE IF district_id = None THEN "skipped"
                      ELSE "rows"
        IN /\ (looked_up /\ district = "raise") => faults < MaxFaults
           /\ faults' = faults + (IF looked_up /\ district = "raise" THEN 1 ELSE 0)
           /\ calls' = IF looked_up THEN <<Call("select", "districts", <<sheets[1]>>)>>
                       ELSE <<>>
           /\ IF status = "rows"
              THEN /\ pc' = "rows"
                   /\ UNCHANGED results
              ELSE /\ pc' = "done"
                   /\ results' = Append(results,
                                        SheetResult(sheets[1], status, "unread", NoStats))
    /\ UNCHANGED <<pureVars, lib, script, sheets, sheetIdx, cols, rows, rowIdx, run, store,
                   stats, buffer, batchIdx, trail>>

\* one iteration of the row loop: a row without ApNo or name is passed over,
\* the institution is found or created, the ledger entry of (ApNo, financial
\* year) is updated or created
DcbDataRow ==
    /\ script = "dcb_data" /\ pc = "rows" /\ rowIdx < MaxRows
    /\ \E row \in CompleteRows :
       \E verdict \in {classify_data(cell(row, 1), cell(row, 2))} :
       \E fault \in {"none", "existing_raise", "institution_raise", "institution_empty",
                     "existing_dcb_raise", "write_raise", "write_empty"} :
        LET ap_no == str_strip(cell(row, 1))
            institution_name == str_strip(cell(row, 2))
            key == <<ap_no, DEFAULT_FINANCIAL_YEAR>>
            known == has_institution(store, ap_no)
            exists == has_dcb(store, key)
            outcome == IF verdict # "accepted" THEN "skipped"
                       ELSE IF fault \in {"existing_raise", "institution_raise",
                                          "existing_dcb_raise", "write_raise"} THEN "raised"
                       ELSE IF fault = "institution_empty" THEN "no_institution"
                       ELSE IF exists THEN "updated"
                       ELSE IF fault = "write_empty" THEN "failed"
                       ELSE "created"
            sent == <<Call("select", "institutions", <<ap_no>>)>>
                    \o (IF known THEN <<>>
                        ELSE <<Call("insert", "institutions", <<ap_no>>)>>)
                    \o <<Call("select", "institution_dcb", <<key>>),
                         Call(IF exists THEN "update" ELSE "insert", "institution_dcb",
                              <<key>>)>>
            issued == IF verdict # "accepted" THEN 0
                      ELSE IF fault = "existing_raise" THEN 1
                      ELSE IF fault \in {"institution_raise", "institution_empty"} THEN 2
                      ELSE IF fault = "existing_dcb_raise" THEN Len(sent) - 1
                      ELSE Len(sent)
            inserted == ~known /\ issued > 2
            written == issued = Len(sent) /\ fault = "none"
        IN /\ fault # "none" => (verdict = "accepted" /\ faults < MaxFaults)
           /\ fault \in {"institution_raise", "institution_empty"} => ~known
           /\ fault = "write_empty" => ~exists
           /\ faults' = faults + (IF fault = "none" THEN 0 ELSE 1)
           /\ calls' = SubSeq(sent, 1, issued)
           /\ store' = LET st == IF inserted
                                 THEN upsert_institution(store, ap_no, institution_name)
                                 ELSE store
                           data == [name |-> institution_name, remarks |-> None]
                       IN IF ~written THEN st
                          ELSE IF exists THEN update_dcb(st, key, data)
                          ELSE insert_dcb(st, key, data)
           /\ stats' = [stats EXCEPT
                  !.institutions = @ + (IF inserted THEN 1 ELSE 0),
                  !.created = @ + (IF outcome = "created" THEN 1 ELSE 0),
                  !.errors = @ + (IF outcome \in {"raised", "no_institution", "failed"}
                                  THEN 1 ELSE 0),
                  !.writes = @ + (IF issued = Len(sent) THEN 1 ELSE 0)
                                 + (IF ~known /\ issued >= 2 THEN 1 ELSE 0)]
           /\ trail' = [verdict |-> verdict, cleaned |-> {"ap_no", "institution_name"},
                        outcome |-> outcome]
    /\ rowIdx' = rowIdx + 1
    /\ UNCHANGED <<pureVars, lib, script, pc, sheets, sheetIdx, cols, rows, run,
                   results, buffer, batchIdx>>

\* the sheet has no more rows: the counts of the sheet are returned
DcbDataClose ==
    /\ script = "dcb_data" /\ pc = "rows"
    /\ results' = Append(results, SheetResult(sheets[1], "success", "resolved", stats))
    /\ pc' = "done"
    /\ calls' = <<>>
    /\ UNCHANGED <<pureVars, lib, script, sheets, sheetIdx, cols, rows, rowIdx, run,
                   store, faults, stats, buffer, batchIdx, trail>>

DcbDataNext == DcbDataOpen \/ DcbDataRow \/ DcbDataClose

\* the scripts that count what became of the rows of a sheet
SpecCounts ==
    /\ ExcelInit \/ ConsolidatedInit \/ DcbDataInit
    /\ [][ExcelNext \/ ConsolidatedNext \/ DcbDataNext]_vars

\* a step of a row loop that hands its row to the classifier
RowStep == rowIdx' = rowIdx + 1 /\ script \in {"dcb_from_excel", "consolidated", "dcb_data"}

\* C23: a row the classifier rejects (identity missing or a sentinel, marker
\* or header row) adds one to the skipped count and nothing to the error
\* count, in every import script.
C23_RejectedRowCountsAsSkipped ==
    [][(RowStep /\ trail'.verdict # "accepted") =>
           /\ stats'.skipped = stats.skipped + 1
           /\ stats'.errors = stats.errors]_vars

\* the scripts that look up the district of a row or of a sheet
SpecDistricts ==
    /\ ExcelInit \/ WaqfInit \/ CompleteInit
    /\ [][ExcelNext \/ WaqfNext \/ CompleteNext]_vars

\* the district label of a sheet has no alias in the script's mapping
NoAlias(name, file) ==
    IF name = "dcb_from_excel" THEN file \notin DISTRICT_MAPPING
    ELSE district_name_complete(file) \in {None, <<"U", "N", "K", "N", "O", "W", "N">>}

\* the district cell of the row just read names no district of the store
UnknownDistrict(row) ==
    LET read == Read_waqf[cols, row]
    IN read.ap # None /\ read.name # None /\ read.district_name # None
       /\ read.district_id = None

\* C24: a district label without alias, or one the store does not know,
\* costs the record that carries it and nothing else: the record is skipped
\* and counted, its sheet is not skipped as a whole and the row loop goes on.
C24_UnknownDistrictSkipsOneRecord ==
    /\ \A i \in 1..Len(results) :
          (script \in {"dcb_from_excel", "dcb_complete"} /\ NoAlias(script, results[i].file))
              => results[i].status # "skipped"
    /\ (script = "waqf" /\ pc \in {"institutions", "upsert_institutions", "reload"}
        /\ trail.cleaned # {} /\ UnknownDistrict(rows[rowIdx])) =>
          /\ trail.outcome = "skipped"
          /\ stats.skipped >= 1
          /\ stats.processed = rowIdx

\* the scripts whose rows meet store calls that may fail
SpecFailures ==
    /\ ExcelInit \/ CsvInit \/ WaqfInit
    /\ [][ExcelNext \/ CsvNext \/ WaqfNext]_vars

\* a step that handles rows of the sheet and meets a store call that fails
RowFailure ==
    /\ faults' = faults + 1
    /\ \/ script \in {"dcb_from_excel", "dcb_from_csv"} /\ pc = "rows"
       \/ script = "waqf" /\ pc = "upsert_dcb"

\* C25: a failure while a row is processed, a failed store call of the row
\* included, does not escape the row: the error is recorded in the error
\* count and the run goes on with the rows after it.
C25_RowFailureIsContained ==
    [][RowFailure => (stats'.errors = stats.errors + 1 /\ pc' # "aborted")]_vars

-----------------------------------------------------------------------------
(* Two sheets imported one after the other, in either order, every store
   call answering.  A sheet is the rows of a file of
   scripts/import_dcb_from_excel.py or of a sheet of
   scripts/import_dcb_complete.py. *)

NoCounts == [created |-> 0, updated |-> 0, skipped |-> 0, errors |-> 0, institutions |-> 0]

\* the row loop of process_excel_file over the rows of a sheet
RECURSIVE import_rows_excel(_, _, _)
import_rows_excel(acc, mapping, data) ==
    IF data = <<>> THEN acc
    ELSE LET read == Read_excel[mapping, Head(data)]
             key == <<read.ap_no, DEFAULT_FINANCIAL_YEAR>>
             dcb_data == [name |-> None, remarks |-> read.remarks]
             next ==
                 IF read.verdict # "accepted" \/ ~has_institution(acc.store, read.ap_no)
                 THEN [acc EXCEPT !.counts.skipped = @ + 1]
                 ELSE IF has_dcb(acc.store, key)
                 THEN [store |-> update_dcb(acc.store, key, dcb_data),
                       counts |-> [acc.counts EXCEPT !.updated = @ + 1]]
                 ELSE [store |-> insert_dcb(acc.store, key, dcb_data),
                       counts |-> [acc.counts EXCEPT !.created = @ + 1]]
         IN import_rows_excel(next, mapping, Tail(data))

\* process_excel_file on a file whose district and inspector are found
import_sheet_excel(st, sheet) ==
    LET mapping == Resolved_excel[sheet.columns]
    IN IF critical_missing(mapping.ap_no_col, mapping.name_col)
       THEN [store |-> st, counts |-> NoCounts]
       ELSE import_rows_excel([store |-> st, counts |-> NoCounts], mapping, sheet.data)

\* the row loop of process_sheet of import_dcb_complete.py
RECURSIVE import_rows_complete(_, _)
import_rows_complete(acc, data) ==
    IF data = <<>> THEN acc
    ELSE LET read == Read_complete[Head(data)]
             key == <<read.ap_no, DEFAULT_FINANCIAL_YEAR>>
             dcb_data == [name |-> read.institution_name, remarks |-> None]
             known == has_institution(acc.store, read.ap_no)
             st == IF known THEN acc.store
                   ELSE upsert_institution(acc.store, read.ap_no, read.institution_name)
             next ==
                 IF read.verdict # "accepted"
                 THEN [acc EXCEPT !.counts.skipped = @ + 1]
                 ELSE [store |-> IF has_dcb(st, key) THEN update_dcb(st, key, dcb_data)
                                 ELSE insert_dcb(st, key, dcb_data),
                       counts |-> [acc.counts EXCEPT
                           !.institutions = @ + (IF known THEN 0 ELSE 1),
                           !.created = @ + (IF has_dcb(st, key) THEN 0 ELSE 1)]]
         IN import_rows_complete(next, Tail(data))

import_sheet_complete(st, sheet) ==
    import_rows_complete([store |-> st, counts |-> NoCounts], sheet.data)

\* the rows a table holds, whatever their order
Contents(st) ==
    [institutions |-> {st.institutions[i] : i \in 1..Len(st.institutions)},
     institution_dcb |-> {st.institution_dcb[i] : i \in 1..Len(st.institution_dcb)},
     entries |-> Len(st.institution_dcb)]

\* one sheet imported, then the other into the store the first one left
one_then_other(import_sheet(_, _), st, one, other) ==
    LET after_one == import_sheet(st, one)
        after_other == import_sheet(after_one.store, other)
    IN [contents |-> Contents(after_other.store),
        counts |-> [c \in DOMAIN NoCounts |->
                       after_one.counts[c] + after_other.counts[c]],
        each |-> <<after_one.counts, after_other.counts>>]

SheetPairs(columns, pool) ==
    LET sheets_of == UNION {[1..n -> pool] : n \in 1..MaxRows}
    IN [columns : columns, first : sheets_of, second : sheets_of]

\* the store before the two imports
StoresBefore ==
    {[EmptyStore EXCEPT !.institutions = i, !.institution_dcb = d] :
        i \in {<<[ap |-> <<"A", "1", "2", "3", "4">>, name |-> <<"M", "a", "s", "j", "i", "d">>]>>,
               <<[ap |-> <<"A", "1", "2", "3", "4">>, name |-> <<"M", "a", "s", "j", "i", "d">>], [ap |-> <<"B", "5", "6", "7", "8">>, name |-> <<"D", "a", "r", "g", "a", "h">>]>>},
        d \in {<<>>, <<[key |-> <<<<"A", "1", "2", "3", "4">>, DEFAULT_FINANCIAL_YEAR>>,
                        data |-> [name |-> None, remarks |-> <<"o", "l", "d">>]]>>}}

OrderInit ==
    /\ fn = "idle"
    /\ \E kind \in {"excel", "complete"} :
          arg \in [kind : {kind},
                   pair : IF kind = "excel"
                          THEN SheetPairs(ExcelHeaders, ExcelRows)
                          ELSE SheetPairs({None}, CompleteRows),
                   store : StoresBefore]
    /\ out = <<>>
    /\ lib = "rejects"
    /\ RunIdle

Apply_either_order_excel ==
    /\ fn = "idle" /\ arg.kind = "excel"
    /\ fn' = "process_excel_file"
    /\ \E first \in {[columns |-> arg.pair.columns, data |-> arg.pair.first]},
          second \in {[columns |-> arg.pair.columns, data |-> arg.pair.second]} :
          out' = [forward |-> one_then_other(import_sheet_excel, arg.store, first, second),
                  backward |-> one_then_other(import_sheet_excel, arg.store, second, first)]
    /\ UNCHANGED <<arg, lib, runVars>>

Apply_either_order_complete ==
    /\ fn = "idle" /\ arg.kind = "complete"
    /\ fn' = "process_sheet"
    /\ \E first \in {[data |-> arg.pair.first]}, second \in {[data |-> arg.pair.second]} :
          out' = [forward |-> one_then_other(import_sheet_complete, arg.store, first, second),
                  backward |-> one_then_other(import_sheet_complete, arg.store, second, first)]
    /\ UNCHANGED <<arg, lib, runVars>>

OrderNext == Apply_either_order_excel \/ Apply_either_order_complete

SpecOrder == OrderInit /\ [][OrderNext]_vars

\* the ApNos the script reads from the rows of a sheet
ApNos(kind, columns, data) ==
    {IF kind = "excel" THEN Read_excel[Resolved_excel[columns], data[i]].ap_no
     ELSE Read_complete[data[i]].ap_no : i \in 1..Len(data)} \ {None}

NoCommonApNo ==
    ApNos(arg.kind, arg.pair.columns, arg.pair.first)
        \cap ApNos(arg.kind, arg.pair.columns, arg.pair.second) = {}

\* C26: two sheets with no ApNo in common, imported from the same store in
\* either order, leave the same rows in the store and give the same sums of
\* created, updated, skipped and error counts.
C26_SheetOrderIrrelevant ==
    (fn \in {"process_excel_file", "process_sheet"} /\ NoCommonApNo) =>
        /\ out.forward.contents = out.backward.contents
        /\ out.forward.counts = out.backward.counts

\* both sheets of such a pair have stored a new entry
C26_BothSheetsStored ==
    /\ fn \in {"process_excel_file", "process_sheet"}
    /\ NoCommonApNo
    /\ out.forward.each[1].created >= 1
    /\ out.forward.each[2].created >= 1
    /\ out.forward.contents # Contents(arg.store)

\* how many entries of the ledger are under the key
Stored(st, key) ==
    Cardinality({i \in 1..Len(st.institution_dcb) : st.institution_dcb[i].key = key})

\* how many records of the sequence carry the key
Carrying(records, key) ==
    Cardinality({k \in 1..Len(records) : records[k].key = key})

\* how many times the calls of a step carry the key
Submitted(issued, key) ==
    LET per_call(k) == Cardinality({j \in 1..Len(issued[k].keys) : issued[k].keys[j] = key})
        sum[k \in 0..Len(issued)] == IF k = 0 THEN 0 ELSE sum[k - 1] + per_call(k)
    IN sum[Len(issued)]

\* the ledger as the run found it
StoreBefore == IF run = 2 THEN results[1].store ELSE EmptyStore

\* the records of the buffer whose batch has been submitted
Handled == Min(batchIdx * BatchSize, Len(buffer))

\* C27: in the batched import with per-record fallback, a rejected batch
\* call storing nothing, a run stores no record more than once and submits
\* no record more than twice, once in its batch and at most once alone.
C27_StoredOnceSubmittedTwice ==
    /\ [](script = "consolidated" =>
            /\ \A key \in {buffer[k].key : k \in 1..Len(buffer)} :
                  Stored(store, key) - Stored(StoreBefore, key) <= Carrying(buffer, key)
            /\ Len(store.institution_dcb) - Len(StoreBefore.institution_dcb) <= Handled
            /\ Handled + (stats.writes - batchIdx) <= 2 * Handled)
    /\ [][(script = "consolidated" /\ pc = "batches" /\ pc' = "batches") =>
            /\ batchIdx' = batchIdx + 1
            /\ LET batch == SubSeq(buffer, batchIdx * BatchSize + 1,
                                   Min((batchIdx + 1) * BatchSize, Len(buffer)))
               IN \A key \in {buffer[k].key : k \in 1..Len(buffer)} :
                     /\ Submitted(calls', key) <= 2 * Carrying(batch, key)
                     /\ Stored(store', key) - Stored(store, key) <= Carrying(batch, key)]_vars

\* a batch was rejected and records of it were then stored one by one
C27_StoredSinglyAfterRejection ==
    /\ script = "consolidated"
    /\ trail.outcome = "batch_rejected"
    /\ Len(calls) >= 3
    /\ stats.inserted >= 1
    /\ store.institution_dcb # StoreBefore.institution_dcb

\* C28: in the per-district import every row of a sheet is counted once:
\* created + updated + skipped + errors is the number of rows processed, while
\* the sheet is read and in the result returned for it.
C28_EveryRowCountedOnce ==
    /\ (script = "dcb_from_excel" /\ pc = "rows") =>
          stats.created + stats.updated + stats.skipped + stats.errors = stats.processed
    /\ script = "dcb_from_excel" =>
          \A i \in 1..Len(results) :
              results[i].status = "success" =>
                  results[i].created + results[i].updated + results[i].skipped
                      + results[i].errors = results[i].rows

\* ---------------------------------------------------------------------
\* Identity columns of a resolved mapping
\* ---------------------------------------------------------------------

\* the resolver found both identity columns, so the sheet is read on
Usable(mapping) == mapping.ap_no_col # NoCol /\ mapping.name_col # NoCol

\* C29: for every sheet that is not fatal the resolved mapping gives the
\* ApNo and the institution name two different columns, whatever the
\* titles and however many columns the sheet has.
C29_IdentityColumnsDiffer ==
    (fn \in {"resolve_excel", "resolve_institutions"} /\ Usable(out.before))
        => out.before.ap_no_col # out.before.name_col

\* the same for the sheets of the DCB importer alone
C29_IdentityColumnsDiffer_excel ==
    (fn = "resolve_excel" /\ Usable(out.before))
        => out.before.ap_no_col # out.before.name_col

\* the same for the sheets of the institution importer alone
C29_IdentityColumnsDiffer_institutions ==
    (fn = "resolve_institutions" /\ Usable(out.before))
        => out.before.ap_no_col # out.before.name_col

\* a usable sheet whose ApNo and institution name are one column
C29_SharedIdentityColumn ==
    /\ fn \in {"resolve_excel", "resolve_institutions"}
    /\ Usable(out.before)
    /\ out.before.ap_no_col = out.before.name_col

\* ---------------------------------------------------------------------
\* Institutions before ledger records in the consolidated import
\* ---------------------------------------------------------------------

\* the rows the first pass puts into inst_payload
Prepared(row) ==
    LET read == Read_waqf[cols, row]
    IN read.ap # None /\ read.name # None /\ read.district_name # None
       /\ read.district_id # None

\* the last call issued is an upsert on institution_dcb
DcbIssued ==
    /\ script = "waqf"
    /\ calls # <<>>
    /\ calls[1].op = "upsert" /\ calls[1].table = "institution_dcb"

\* this step issues an upsert on institutions
InstitutionsIssued ==
    /\ script = "waqf"
    /\ stats'.writes = stats.writes + 1
    /\ calls'[1].table = "institutions"

\* the rows the second pass has no institution or no inspector for
Lacking ==
    {k \in DOMAIN rows : ~has_inspector(store, sheets[2], Read_waqf[cols, rows[k]].ap)}

\* C30: in the consolidated import every institution upsert completes
\* before the first DCB upsert is issued; every DCB record submitted
\* references an institution that is in the store at that time and an
\* inspector assigned to that institution's district; rows lacking
\* either are skipped, not submitted.
C30_InstitutionsBeforeLedger ==
    /\ [](DcbIssued =>
            /\ \A k \in DOMAIN rows :
                  Prepared(rows[k]) =>
                      has_institution(store, Read_waqf[cols, rows[k]].ap)
            /\ \A k \in DOMAIN calls[1].keys :
                  /\ has_institution(store, calls[1].keys[k][1])
                  /\ inst_district_by_id(store, calls[1].keys[k][1]) \in sheets[2])
    /\ []((script = "waqf" /\ pc \in {"upsert_dcb", "done"}) =>
            /\ \A k \in Lacking :
                  \A j \in DOMAIN buffer :
                      buffer[j].key[1] # Read_waqf[cols, rows[k]].ap
            /\ stats.dcb_skipped = Cardinality(Lacking))
    /\ [][DcbIssued => ~InstitutionsIssued]_vars

\* a run that stored institutions and then ledger records, with a row
\* left out of the second pass
C30_LedgerAfterInstitutions ==
    /\ DcbIssued
    /\ pc = "done"
    /\ trail.outcome = "batch_stored"
    /\ stats.dcb_skipped > 0
    /\ stats.writes > 1
    /\ \E k \in DOMAIN rows : Prepared(rows[k])

=============================================================================
